---- MODULE Spec2Model ----
(***************************************************************************)
(* A model of the agent runtime of go-test (a fork of crush): the provider *)
(* stream and its consumer, the message-part codec, the conversion of the  *)
(* history into a provider request, the SSE endpoint, the permission gate  *)
(* and the tools that use it, and the client's SSE reader.                 *)
(*                                                                         *)
(* Each component has its own specification (SpecStream, SpecParts, ...);  *)
(* the variables of the other components keep their initial values.        *)
(***************************************************************************)
EXTENDS Integers, Sequences, FiniteSets, TLC

VARIABLES
    \* ---- provider stream and its consumer (provider.go, openai.go, agent)
    provKind,         \* "openai" | "fake" (the test's fakeClient) | "noclose" (the agent test's fakeProvider)
    disableStreaming, \* the provider is configured with disable_streaming
    sendOk,           \* whether the client's send succeeds
    streamCalled,     \* the client's stream operation was called
    sendCalls,        \* number of calls of the client's send operation
    eventChan,        \* the events buffered in the provider's event channel
    chanCap,          \* capacity of the channel (0: unbuffered)
    chanClosed,       \* the channel was closed
    sent,             \* every event the provider put on the channel, in order
    prodPc,           \* position of the provider's goroutine
    emitted,          \* number of events the running attempt of the goroutine emitted
    streamAttempts,   \* openaiClient.stream: attempts, the number of the running attempt
    agentPc,          \* position of streamAndHandleEvents
    consumed,         \* the events streamAndHandleEvents read, in order
    agentResult,      \* how streamAndHandleEvents returned
    ctxDone,          \* the turn's context is canceled
    \* ---- message-part codec (proto/message.go)
    parts,            \* the parts of the message being stored
    partsPc,          \* "input" | "encoded" | "decoded"
    encoded,          \* the output of MarshallParts(parts)
    decoded,          \* the result of UnmarshallParts(encoded)
    \* ---- the request built from the history (openai.go)
    history,          \* the message history of the session
    nextCallId,       \* the id of the next tool call
    compatibilityMode,\* extraParams["compatibility_mode"] == "true"
    requestBuilt,     \* the request was built
    request,          \* the messages of the request
    \* ---- the SSE endpoint of an instance (server/proto.go)
    published,        \* the events the instance published, in order
    appEvents,        \* the events waiting in the channel App.Events() returns
    sseConnected,     \* per client: its handler is running
    sseJoinedAt,      \* per client: how many events were published when it connected
    sseFrames,        \* per client: the frames written to its connection
    \* ---- the permission gate and the tools (lsp_restart_tool.go, todo.go, context.go)
    toolPc,           \* "idle" | "waiting" (blocked in Request) | "done"
    toolRun,          \* the running tool call: its tool, input and number
    toolCtxDone,      \* the context of the running tool call is canceled
    toolResponse,     \* what Run returned
    skipRequests,     \* the gate's global auto-allow
    autoApproved,     \* the auto-approved session ids
    persistentGrants, \* the persistent grants: <<session, tool, params>>
    pendingReply,     \* the reply channel of the pending request
    gateCalls,        \* every Request made: its run, its tool and its outcome
    effects,          \* the effects the tools had: the run, the tool and the operation
    todos,            \* the todo store: id -> <<content, status>>
    nextTodoId,       \* the id the store gives the next todo
    \* ---- the client's SSE reader (client SubscribeEvents)
    wire,             \* number of events the reader decoded from the response body
    evc,              \* the events buffered in the channel SubscribeEvents returned
    evcClosed,        \* the channel was closed
    readerPc,         \* "reading" | "sending" (in sendEvent) | "panicked"
    clientCtxDone,    \* the subscription's context is canceled
    delivered,        \* number of events the consumer received
    \* ---- the event envelope between server and client (pubsub events, client)
    evIn,             \* the event the server sends
    evPc,             \* "input" | "encoded" | "decoded"
    evWire,           \* the output of Event.MarshalJSON
    evOut,            \* what the client's reader made of the frame
    \* ---- the server's life cycle (server.go, cmd/server.go, server/proto.go)
    srvPc,            \* position of the server command: "serving" | "shutdown" | "exit_..."
    listening,        \* the http server accepts connections
    rootCtxDone,      \* the server's context s.ctx is canceled
    reqCtxDone,       \* the context of the request that submitted the prompt is canceled
    turnCtxDone,      \* the cancel function of the running turn was called
    tasks,            \* the long-lived tasks: the agent turn, the instance's app, its database connection
    conns,            \* number of open event streams
    ctrlShutdown,     \* the goroutine of the control handler: "none" | "waiting" | "returned"
    closeCalled,      \* Server.Close was called
    openAtExit,       \* number of event streams open when the server command returned
    \* ---- the retries of a provider call (openai.go: send, stream, shouldRetry)
    rtMode,           \* "send" | "stream"
    rtPc,             \* "calling" | "waiting" (the backoff) | "done"
    attempts,         \* the attempts counter of the loop
    apiKey,           \* providerOptions.apiKey
    rtCtxDone,        \* the context of the call is done
    rtCalls,          \* the failed provider requests, in order, and what shouldRetry said
    sendReturn,       \* what send returned
    streamEvents,     \* the events stream put on its channel
    rtChunks,         \* the chunks the stream of the current attempt has given
    streamClosed,     \* close(eventChan) was called
    rtReader,         \* the consumer of the channel stream returned: "reading" | "stopped"
    \* ---- the message service and the messages it made (message/message.go, proto/message.go)
    dbMessages,       \* the rows of the messages table, in order of creation
    heldMessages,     \* the messages Create returned, as their holder changed them
    lastMsgOp,        \* the last operation on a message
    msgOps,           \* number of operations so far
    delPc,            \* DeleteSessionMessages: "idle" | "deleting" (in its loop)
    delTodo,          \* DeleteSessionMessages: the ids of the listed messages it has still to delete
    \* ---- reading a stored message (message/message.go: Get, fromDBItem)
    rdRow,            \* the row of the messages table
    rdPc,             \* "stored" | "read"
    rdResult,         \* what Get returned: the message, or an error
    \* ---- the instances of the server (server/proto.go: handlePostInstances, handleDeleteInstances, handleGetInstance, handleGetInstances)
    instances,        \* controllerV1.instances: the ids of the registry
    dbConns,          \* id -> "none" | "open" | "closed": the connection db.Connect gave for the id
    appRunning,       \* the ids whose App was created and not shut down
    deletedIDs,       \* the ids of the DELETE requests that found their instance and returned
    insDeletes,       \* per DELETE request in flight: where handleDeleteInstances stands, its id and the ok of its Get
    insResp,          \* the response of the last instance request
    insOps,           \* the instance requests handled
    \* ---- the start of the client (cmd/run.go: rootCmd.RunE, startDetachedServer)
    sockState,        \* the socket path: "absent" | "listening" | "stale" (a file no server listens on)
    sockAtStart,      \* sockState when the client started
    bootPc,           \* "start" | "polling" | "waiting" | "connect" | "health" | "connected" | "failed" | "canceled"
    polls,            \* the os.Stat calls of the wait loop
    serverStarted,    \* startDetachedServer started the server process
    startCalled,      \* startDetachedServer was called
    bootCtxDone,      \* cmd.Context() is done
    \* ---- the context tool with a query (llm/tools/context.go: Run, processContextPaths)
    cqFiles,          \* path -> the lines of the file
    cqQuery,          \* ContextInput.Query
    cqPc,             \* "idle" | "done"
    cqLines,          \* strings.Split(contextContent, "\n") of the call
    cqOwner,          \* for each line of cqLines, the path of the file it was loaded from
    cqKept,           \* the positions of cqLines that filteredLines holds, in order
    cqContent,        \* the lines of contextContent when Run returns
    \* ---- the response body of the subscription (client SubscribeEvents)
    readErrors,       \* the read errors, other than io.EOF, that ReadBytes returned
    \* ---- the client's reader over the frames of a stream (client SubscribeEvents)
    frIn,             \* the data of the frames of the stream, in order
    frPos,            \* the frame the reader is at
    frReader,         \* "reading" | "panicked"
    frWarned,         \* the frames skipped with slog.Warn("unknown event type")
    frSent,           \* the events the reader sent on the channel, in order
    \* ---- the goroutines of processContextPaths (llm/tools/context.go)
    wkPaths,          \* the paths given to processContextPaths
    wkTodo,           \* per goroutine: the files it has still to visit
    wkPc,             \* per goroutine, at the file it visits: "get" | "set" (after Get missed) | "send"
    processedFiles,   \* the lower-case paths set in processedFiles
    wkResults,        \* the files whose result was received from resultCh, in order
    \* ---- the event streams of an instance that is deleted (server/proto.go: handleGetInstanceEvents, handleDeleteInstances)
    esChan,           \* the events waiting in the channel App.Events() returns
    esPublished,      \* the number of events the instance published
    esClosed,         \* the channel App.Events() returns was closed
    esRegistered,     \* the instance is in c.instances
    esDelPc,          \* handleDeleteInstances: "idle" | "shutdown" | "del"
    esHandler,        \* per client: "none" | "running" | "returned"
    esFrames,         \* per client: the data of the frames written, 0 for null
    \* ---- the LSP states of the app (app/lsp_events.go: updateLSPState, updateLSPDiagnostics)
    lspStates,        \* a.lspStates for one client name: the stored info, or NoLSPInfo
    lsStatePc,        \* updateLSPState: "idle" | "done"
    lsStateArgs,      \* the state and the diagnostic count updateLSPState is called with
    lsDiagPc,         \* updateLSPDiagnostics: "idle" | "got" (after Get) | "done"
    lsDiagCount,      \* the diagnostic count updateLSPDiagnostics is called with
    lsDiagInfo,       \* the info updateLSPDiagnostics got
    \* ---- the rows of table todos and the operations on them (tools/todo.go, todo/todo.go, db/sql/todos.sql)
    tdRows,           \* the rows of table todos: records with ID, SessionID, Content, Status
    tdNextId,         \* the id the next created todo gets
    tdCalls,          \* number of operations on the table so far
    tdCaller,         \* the session id the last operation was given
    tdBefore,         \* the rows of the table when the last operation began
    tdResponse,       \* the outcome of the last operation: "" | "ok" | "error"
    tdOp              \* the last operation: "" | the name of the tool | the function of the service

streamVars == <<provKind, disableStreaming, sendOk, streamCalled, sendCalls, eventChan,
                chanCap, chanClosed, sent, prodPc, emitted, streamAttempts, agentPc,
                consumed, agentResult, ctxDone>>
partsVars == <<parts, partsPc, encoded, decoded>>
convVars == <<history, nextCallId, compatibilityMode, requestBuilt, request>>

sseVars == <<published, appEvents, sseConnected, sseJoinedAt, sseFrames>>

permVars == <<toolPc, toolRun, toolCtxDone, toolResponse, skipRequests, autoApproved,
              persistentGrants, pendingReply, gateCalls, effects, todos, nextTodoId>>
clientVars == <<wire, evc, evcClosed, readerPc, clientCtxDone, delivered>>

envelopeVars == <<evIn, evPc, evWire, evOut>>
serverVars == <<srvPc, listening, rootCtxDone, reqCtxDone, turnCtxDone, tasks, conns, ctrlShutdown, closeCalled, openAtExit>>
retryVars == <<rtMode, rtPc, attempts, apiKey, rtCtxDone, rtCalls, sendReturn, streamEvents, rtChunks, streamClosed, rtReader>>
messageVars == <<dbMessages, heldMessages, lastMsgOp, msgOps, delPc, delTodo>>
readVars == <<rdRow, rdPc, rdResult>>
instanceVars == <<instances, dbConns, appRunning, deletedIDs, insDeletes, insResp, insOps>>
bootVars == <<sockState, sockAtStart, bootPc, polls, serverStarted, startCalled, bootCtxDone>>
queryVars == <<cqFiles, cqQuery, cqPc, cqLines, cqOwner, cqKept, cqContent>>
bodyVars == <<readErrors>>
framesVars == <<frIn, frPos, frReader, frWarned, frSent>>
walkVars == <<wkPaths, wkTodo, wkPc, processedFiles, wkResults>>
evsVars == <<esChan, esPublished, esClosed, esRegistered, esDelPc, esHandler, esFrames>>
lspVars == <<lspStates, lsStatePc, lsStateArgs, lsDiagPc, lsDiagCount, lsDiagInfo>>
rowsVars == <<tdRows, tdNextId, tdCalls, tdCaller, tdBefore, tdResponse, tdOp>>

\* the variables of the components defined further down
extVars == <<envelopeVars, serverVars, retryVars, messageVars, readVars, instanceVars, bootVars, queryVars, bodyVars, framesVars, walkVars, evsVars, lspVars, rowsVars>>
baseVars == <<streamVars, partsVars, convVars, sseVars, permVars, clientVars>>
notEnvelope == <<baseVars, serverVars, retryVars, messageVars, readVars, instanceVars, bootVars, queryVars, bodyVars, framesVars, walkVars, evsVars, lspVars, rowsVars>>
notServer == <<baseVars, envelopeVars, retryVars, messageVars, readVars, instanceVars, bootVars, queryVars, bodyVars, framesVars, walkVars, evsVars, lspVars, rowsVars>>
notRetry == <<baseVars, envelopeVars, serverVars, messageVars, readVars, instanceVars, bootVars, queryVars, bodyVars, framesVars, walkVars, evsVars, lspVars, rowsVars>>
notMessage == <<baseVars, envelopeVars, serverVars, retryVars, readVars, instanceVars, bootVars, queryVars, bodyVars, framesVars, walkVars, evsVars, lspVars, rowsVars>>
notRead == <<baseVars, envelopeVars, serverVars, retryVars, messageVars, instanceVars, bootVars, queryVars, bodyVars, framesVars, walkVars, evsVars, lspVars, rowsVars>>
notInstance == <<baseVars, envelopeVars, serverVars, retryVars, messageVars, readVars, bootVars, queryVars, bodyVars, framesVars, walkVars, evsVars, lspVars, rowsVars>>
notBoot == <<baseVars, envelopeVars, serverVars, retryVars, messageVars, readVars, instanceVars, queryVars, bodyVars, framesVars, walkVars, evsVars, lspVars, rowsVars>>
notQuery == <<baseVars, envelopeVars, serverVars, retryVars, messageVars, readVars, instanceVars, bootVars, bodyVars, framesVars, walkVars, evsVars, lspVars, rowsVars>>
notBody == <<baseVars, envelopeVars, serverVars, retryVars, messageVars, readVars, instanceVars, bootVars, queryVars, framesVars, walkVars, evsVars, lspVars, rowsVars>>
notFrames == <<baseVars, envelopeVars, serverVars, retryVars, messageVars, readVars, instanceVars, bootVars, queryVars, bodyVars, walkVars, evsVars, lspVars, rowsVars>>
notWalk == <<baseVars, envelopeVars, serverVars, retryVars, messageVars, readVars, instanceVars, bootVars, queryVars, bodyVars, framesVars, evsVars, lspVars, rowsVars>>
notEvs == <<baseVars, envelopeVars, serverVars, retryVars, messageVars, readVars, instanceVars, bootVars, queryVars, bodyVars, framesVars, walkVars, lspVars, rowsVars>>
notLsp == <<baseVars, envelopeVars, serverVars, retryVars, messageVars, readVars, instanceVars, bootVars, queryVars, bodyVars, framesVars, walkVars, evsVars, rowsVars>>
notRows == <<baseVars, envelopeVars, serverVars, retryVars, messageVars, readVars, instanceVars, bootVars, queryVars, bodyVars, framesVars, walkVars, evsVars, lspVars>>

vars == <<streamVars, partsVars, convVars, sseVars, permVars, clientVars, extVars>>

\* ---- the retries of a provider request (provider.go: const maxRetries)
maxRetries == 3

\* ---- bounds
MaxEvents == 3
MaxParts == 2
MaxHistory == 2
MaxCalls == 2
MaxPublished == 3
NumClients == 2

Last(s) == s[Len(s)]

(***************************************************************************)
(* The state of each component before it is used.                          *)
(***************************************************************************)
InitStreamIdle ==
    /\ provKind = "openai"
    /\ disableStreaming = FALSE
    /\ sendOk = TRUE
    /\ streamCalled = FALSE
    /\ sendCalls = 0
    /\ eventChan = <<>>
    /\ chanCap = 0
    /\ chanClosed = FALSE
    /\ sent = <<>>
    /\ prodPc = "none"
    /\ emitted = 0
    /\ streamAttempts = 0
    /\ agentPc = "idle"
    /\ consumed = <<>>
    /\ agentResult = "none"
    /\ ctxDone = FALSE

NoResult == [ok |-> FALSE, parts |-> <<>>]

InitPartsIdle ==
    /\ parts = <<>>
    /\ partsPc = "input"
    /\ encoded = <<>>
    /\ decoded = NoResult

InitConvIdle ==
    /\ history = <<>>
    /\ nextCallId = 1
    /\ compatibilityMode = FALSE
    /\ requestBuilt = FALSE
    /\ request = <<>>

Clients == 1..NumClients

InitSSE ==
    /\ published = <<>>
    /\ appEvents = <<>>
    /\ sseConnected = [c \in Clients |-> FALSE]
    /\ sseJoinedAt = [c \in Clients |-> 0]
    /\ sseFrames = [c \in Clients |-> <<>>]

\* ---- the permission gate and the tools, before any tool call
NoInput == [name |-> "", todos |-> <<>>, ids |-> <<>>, paths |-> <<>>]

NoRun == [id |-> 0, tool |-> "", session |-> "", input |-> NoInput]

InitGate(skip) ==
    /\ toolPc = "idle"
    /\ toolRun = NoRun
    /\ toolCtxDone = FALSE
    /\ toolResponse = ""
    /\ skipRequests = skip
    /\ autoApproved = {}
    /\ persistentGrants = {}
    /\ pendingReply = "none"
    /\ gateCalls = {}
    /\ effects = {}
    /\ todos = {}
    /\ nextTodoId = 1

InitPermIdle == InitGate(FALSE)

\* ---- the client's SSE reader, right after SubscribeEvents returned
InitClient ==
    /\ wire = 0
    /\ evc = <<>>
    /\ evcClosed = FALSE
    /\ readerPc = "reading"
    /\ clientCtxDone = FALSE
    /\ delivered = 0

\* ---- the event envelope, before any event is encoded
NoDecode == [outcome |-> "none", events |-> <<>>]

InitEnvelopeIdle ==
    /\ evIn = <<>>
    /\ evPc = "input"
    /\ evWire = <<>>
    /\ evOut = NoDecode

\* ---- the server, serving and without instances
TaskKinds == {"turn", "app", "db"}

InitServerIdle ==
    /\ srvPc = "serving"
    /\ listening = TRUE
    /\ rootCtxDone = FALSE
    /\ reqCtxDone = FALSE
    /\ turnCtxDone = FALSE
    /\ tasks = [t \in TaskKinds |-> "none"]
    /\ conns = 0
    /\ ctrlShutdown = "none"
    /\ closeCalled = FALSE
    /\ openAtExit = 0

\* ---- the provider call, before its first attempt
NilError == "nil"
NoReturn == [returned |-> FALSE, response |-> FALSE, err |-> NilError]

InitRetryIdle ==
    /\ rtMode = "send"
    /\ rtPc = "calling"
    /\ attempts = 0
    /\ apiKey = "k1"
    /\ rtCtxDone = FALSE
    /\ rtCalls = <<>>
    /\ sendReturn = NoReturn
    /\ streamEvents = <<>>
    /\ rtChunks = 0
    /\ streamClosed = FALSE
    /\ rtReader = "reading"

\* ---- the message service, with no message
NoMsgOp == [op |-> "none", index |-> 0, reason |-> ""]

InitMessageIdle ==
    /\ dbMessages = <<>>
    /\ heldMessages = <<>>
    /\ lastMsgOp = NoMsgOp
    /\ msgOps = 0
    /\ delPc = "idle"
    /\ delTodo = <<>>

\* ---- a stored row, before it is read
NoMessage == [ID |-> "", Role |-> "", Parts |-> <<>>]
NoRead == [ok |-> FALSE, message |-> NoMessage]

InitReadIdle ==
    /\ rdRow = NoMessage
    /\ rdPc = "stored"
    /\ rdResult = NoRead

\* ---- the server with no instance
InstanceIDs == {"i1", "i2"}
NoInsResp == [op |-> "none", id |-> "", status |-> 0, ids |-> {}]
DeleteRequests == {"d1", "d2"}
NoDelete == [pc |-> "idle", id |-> "", ok |-> FALSE]

InitInstanceIdle ==
    /\ instances = {}
    /\ dbConns = [id \in InstanceIDs |-> "none"]
    /\ appRunning = {}
    /\ deletedIDs = {}
    /\ insDeletes = [k \in DeleteRequests |-> NoDelete]
    /\ insResp = NoInsResp
    /\ insOps = 0

\* ---- the client before it looks for the socket
InitBootIdle ==
    /\ sockState = "listening"
    /\ sockAtStart = "listening"
    /\ bootPc = "start"
    /\ polls = 0
    /\ serverStarted = FALSE
    /\ startCalled = FALSE
    /\ bootCtxDone = FALSE

\* ---- the context tool before a call with a query
InitQueryIdle ==
    /\ cqFiles = <<>>
    /\ cqQuery = <<>>
    /\ cqPc = "idle"
    /\ cqLines = <<>>
    /\ cqOwner = <<>>
    /\ cqKept = <<>>
    /\ cqContent = <<>>

\* ---- the response body, before any read error
InitBodyIdle ==
    /\ readErrors = 0

\* ---- the reader of a stream with no frame
InitFramesIdle ==
    /\ frIn = <<>>
    /\ frPos = 1
    /\ frReader = "reading"
    /\ frWarned = 0
    /\ frSent = <<>>

\* ---- processContextPaths, before it is called
InitWalkIdle ==
    /\ wkPaths = <<>>
    /\ wkTodo = <<>>
    /\ wkPc = <<>>
    /\ processedFiles = {}
    /\ wkResults = <<>>

\* ---- an instance with no event stream
InitEvsIdle ==
    /\ esChan = <<>>
    /\ esPublished = 0
    /\ esClosed = FALSE
    /\ esRegistered = TRUE
    /\ esDelPc = "idle"
    /\ esHandler = <<>>
    /\ esFrames = <<>>

\* ---- the LSP states, with no call running
NoLSPInfo == [exists |-> FALSE, State |-> "", DiagnosticCount |-> 0]

InitLspIdle ==
    /\ lspStates = NoLSPInfo
    /\ lsStatePc = "idle"
    /\ lsStateArgs = NoLSPInfo
    /\ lsDiagPc = "idle"
    /\ lsDiagCount = 0
    /\ lsDiagInfo = NoLSPInfo

\* ---- table todos, empty and with no operation made
InitRowsIdle ==
    /\ tdRows = {}
    /\ tdNextId = 1
    /\ tdCalls = 0
    /\ tdCaller = ""
    /\ tdBefore = {}
    /\ tdResponse = ""
    /\ tdOp = ""

InitExtIdle == InitEnvelopeIdle /\ InitServerIdle /\ InitRetryIdle /\ InitMessageIdle /\ InitReadIdle /\ InitInstanceIdle /\ InitBootIdle /\ InitQueryIdle /\ InitBodyIdle /\ InitFramesIdle /\ InitWalkIdle /\ InitEvsIdle /\ InitLspIdle /\ InitRowsIdle
InitBaseIdle ==
    InitStreamIdle /\ InitPartsIdle /\ InitConvIdle /\ InitSSE /\ InitPermIdle /\ InitClient
InitNotEnvelopeIdle == InitBaseIdle /\ InitServerIdle /\ InitRetryIdle /\ InitMessageIdle /\ InitReadIdle /\ InitInstanceIdle /\ InitBootIdle /\ InitQueryIdle /\ InitBodyIdle /\ InitFramesIdle /\ InitWalkIdle /\ InitEvsIdle /\ InitLspIdle /\ InitRowsIdle
InitNotServerIdle == InitBaseIdle /\ InitEnvelopeIdle /\ InitRetryIdle /\ InitMessageIdle /\ InitReadIdle /\ InitInstanceIdle /\ InitBootIdle /\ InitQueryIdle /\ InitBodyIdle /\ InitFramesIdle /\ InitWalkIdle /\ InitEvsIdle /\ InitLspIdle /\ InitRowsIdle
InitNotRetryIdle == InitBaseIdle /\ InitEnvelopeIdle /\ InitServerIdle /\ InitMessageIdle /\ InitReadIdle /\ InitInstanceIdle /\ InitBootIdle /\ InitQueryIdle /\ InitBodyIdle /\ InitFramesIdle /\ InitWalkIdle /\ InitEvsIdle /\ InitLspIdle /\ InitRowsIdle
InitNotMessageIdle == InitBaseIdle /\ InitEnvelopeIdle /\ InitServerIdle /\ InitRetryIdle /\ InitReadIdle /\ InitInstanceIdle /\ InitBootIdle /\ InitQueryIdle /\ InitBodyIdle /\ InitFramesIdle /\ InitWalkIdle /\ InitEvsIdle /\ InitLspIdle /\ InitRowsIdle
InitNotReadIdle == InitBaseIdle /\ InitEnvelopeIdle /\ InitServerIdle /\ InitRetryIdle /\ InitMessageIdle /\ InitInstanceIdle /\ InitBootIdle /\ InitQueryIdle /\ InitBodyIdle /\ InitFramesIdle /\ InitWalkIdle /\ InitEvsIdle /\ InitLspIdle /\ InitRowsIdle
InitNotInstanceIdle == InitBaseIdle /\ InitEnvelopeIdle /\ InitServerIdle /\ InitRetryIdle /\ InitMessageIdle /\ InitReadIdle /\ InitBootIdle /\ InitQueryIdle /\ InitBodyIdle /\ InitFramesIdle /\ InitWalkIdle /\ InitEvsIdle /\ InitLspIdle /\ InitRowsIdle
InitNotBootIdle == InitBaseIdle /\ InitEnvelopeIdle /\ InitServerIdle /\ InitRetryIdle /\ InitMessageIdle /\ InitReadIdle /\ InitInstanceIdle /\ InitQueryIdle /\ InitBodyIdle /\ InitFramesIdle /\ InitWalkIdle /\ InitEvsIdle /\ InitLspIdle /\ InitRowsIdle
InitNotQueryIdle == InitBaseIdle /\ InitEnvelopeIdle /\ InitServerIdle /\ InitRetryIdle /\ InitMessageIdle /\ InitReadIdle /\ InitInstanceIdle /\ InitBootIdle /\ InitBodyIdle /\ InitFramesIdle /\ InitWalkIdle /\ InitEvsIdle /\ InitLspIdle /\ InitRowsIdle
InitNotBodyIdle == InitBaseIdle /\ InitEnvelopeIdle /\ InitServerIdle /\ InitRetryIdle /\ InitMessageIdle /\ InitReadIdle /\ InitInstanceIdle /\ InitBootIdle /\ InitQueryIdle /\ InitFramesIdle /\ InitWalkIdle /\ InitEvsIdle /\ InitLspIdle /\ InitRowsIdle
InitNotFramesIdle == InitBaseIdle /\ InitEnvelopeIdle /\ InitServerIdle /\ InitRetryIdle /\ InitMessageIdle /\ InitReadIdle /\ InitInstanceIdle /\ InitBootIdle /\ InitQueryIdle /\ InitBodyIdle /\ InitWalkIdle /\ InitEvsIdle /\ InitLspIdle /\ InitRowsIdle
InitNotWalkIdle == InitBaseIdle /\ InitEnvelopeIdle /\ InitServerIdle /\ InitRetryIdle /\ InitMessageIdle /\ InitReadIdle /\ InitInstanceIdle /\ InitBootIdle /\ InitQueryIdle /\ InitBodyIdle /\ InitFramesIdle /\ InitEvsIdle /\ InitLspIdle /\ InitRowsIdle
InitNotEvsIdle == InitBaseIdle /\ InitEnvelopeIdle /\ InitServerIdle /\ InitRetryIdle /\ InitMessageIdle /\ InitReadIdle /\ InitInstanceIdle /\ InitBootIdle /\ InitQueryIdle /\ InitBodyIdle /\ InitFramesIdle /\ InitWalkIdle /\ InitLspIdle /\ InitRowsIdle
InitNotLspIdle == InitBaseIdle /\ InitEnvelopeIdle /\ InitServerIdle /\ InitRetryIdle /\ InitMessageIdle /\ InitReadIdle /\ InitInstanceIdle /\ InitBootIdle /\ InitQueryIdle /\ InitBodyIdle /\ InitFramesIdle /\ InitWalkIdle /\ InitEvsIdle /\ InitRowsIdle
InitNotRowsIdle == InitBaseIdle /\ InitEnvelopeIdle /\ InitServerIdle /\ InitRetryIdle /\ InitMessageIdle /\ InitReadIdle /\ InitInstanceIdle /\ InitBootIdle /\ InitQueryIdle /\ InitBodyIdle /\ InitFramesIdle /\ InitWalkIdle /\ InitEvsIdle /\ InitLspIdle


(***************************************************************************)
(* Provider events (provider.go).                                          *)
(***************************************************************************)
EventContentDelta == "content_delta"
EventThinkingDelta == "thinking_delta"
EventToolUseStart == "tool_use_start"
EventComplete == "complete"
EventError == "error"

DeltaEvents == {EventContentDelta, EventThinkingDelta, EventToolUseStart}

\* The response the client's send returns (the test's &ProviderResponse{Content: "hello"}).
SendResponse == "hello"
\* The response a streamed completion carries.
StreamedResponse == "streamed"

ProviderEvent(t, r) == [Type |-> t, Response |-> r]

\* fakeClient.streamEvents of the provider tests.
FakeStreamEvents == { <<>>, <<ProviderEvent(EventContentDelta, "none")>> }

InitStream ==
    /\ provKind \in {"openai", "fake", "noclose"}
    /\ disableStreaming \in BOOLEAN
    /\ sendOk \in BOOLEAN
    /\ streamCalled = FALSE
    /\ sendCalls = 0
    /\ eventChan = <<>>
    /\ chanCap = 0
    /\ chanClosed = FALSE
    /\ sent = <<>>
    /\ prodPc = "none"
    /\ emitted = 0
    /\ streamAttempts = 0
    /\ agentPc = "idle"
    /\ consumed = <<>>
    /\ agentResult = "none"
    /\ ctxDone = FALSE

\* Room in the channel: an unbuffered channel hands one event over at a time.
CanSend == ~chanClosed /\ Len(eventChan) < (IF chanCap = 0 THEN 1 ELSE chanCap)
\* The sender of an unbuffered channel goes on only once its event was received.
HandedOver == chanCap > 0 \/ eventChan = <<>>

Emit(ev) ==
    /\ eventChan' = Append(eventChan, ev)
    /\ sent' = Append(sent, ev)

\* StreamResponse that never reaches the client's stream operation.
UsesClientStreamNever(kind, disabled) == FALSE

\* baseProvider.StreamResponse delegates to the client whatever the configuration.
UsesClientStream(kind, disabled) == kind \in {"openai", "fake"}

\* openaiClient.stream: extraParams["disable_streaming"] selects the send fallback.
openaiStreamPc(disabled) == IF disabled THEN "fallback_send" ELSE "streaming"

\* streamAndHandleEvents calls provider.StreamResponse and starts reading.
StreamResponse ==
    /\ agentPc = "idle"
    /\ agentPc' = "reading"
    /\ streamCalled' = UsesClientStream(provKind, disableStreaming)
    /\ \/ /\ provKind = "openai"
          /\ prodPc' = openaiStreamPc(disableStreaming)
          /\ chanCap' = IF disableStreaming THEN 1 ELSE 0
          /\ UNCHANGED <<eventChan, sent, chanClosed>>
       \/ /\ provKind = "fake"
          /\ \E evs \in FakeStreamEvents :
                /\ eventChan' = evs
                /\ sent' = evs
                /\ chanCap' = Len(evs)
          /\ chanClosed' = TRUE
          /\ prodPc' = "done"
       \/ /\ provKind = "noclose"
          /\ prodPc' = "fp_delta"
          /\ chanCap' = 2
          /\ UNCHANGED <<eventChan, sent, chanClosed>>
    /\ streamAttempts' = IF provKind = "openai" /\ ~disableStreaming THEN 1 ELSE 0
    /\ UNCHANGED <<provKind, disableStreaming, sendOk, sendCalls, emitted, consumed,
                   agentResult, ctxDone>>
    /\ UNCHANGED <<partsVars, convVars, sseVars, permVars, clientVars, extVars>>

\* openaiClient.stream, disable_streaming: the goroutine calls send and emits its outcome.
FallbackSend ==
    /\ prodPc = "fallback_send"
    /\ sendCalls' = sendCalls + 1
    /\ IF sendOk
         THEN Emit(ProviderEvent(EventComplete, SendResponse))
         ELSE Emit(ProviderEvent(EventError, "none"))
    /\ prodPc' = "fallback_close"
    /\ UNCHANGED <<provKind, disableStreaming, sendOk, streamCalled, chanCap, chanClosed,
                   emitted, streamAttempts, agentPc, consumed, agentResult, ctxDone>>
    /\ UNCHANGED <<partsVars, convVars, sseVars, permVars, clientVars, extVars>>

\* ... and its deferred close(eventChan).
FallbackClose ==
    /\ prodPc = "fallback_close"
    /\ chanClosed' = TRUE
    /\ prodPc' = "done"
    /\ UNCHANGED <<provKind, disableStreaming, sendOk, streamCalled, sendCalls, eventChan,
                   chanCap, sent, emitted, streamAttempts, agentPc, consumed, agentResult, ctxDone>>
    /\ UNCHANGED <<partsVars, convVars, sseVars, permVars, clientVars, extVars>>

\* openaiClient.stream: one chunk of the stream becomes one event.
StreamEmit ==
    /\ prodPc = "streaming"
    /\ Len(sent) < MaxEvents
    /\ CanSend /\ HandedOver
    /\ \E t \in DeltaEvents : Emit(ProviderEvent(t, "none"))
    /\ emitted' = emitted + 1
    /\ UNCHANGED <<provKind, disableStreaming, sendOk, streamCalled, sendCalls, chanCap,
                   chanClosed, prodPc, streamAttempts, agentPc, consumed, agentResult,
                   ctxDone>>
    /\ UNCHANGED <<partsVars, convVars, sseVars, permVars, clientVars, extVars>>

\* openaiClient.stream: the stream of an attempt failed, shouldRetry says retry and
\* the timer fired: the next attempt begins with a new accumulator.
StreamRetry ==
    /\ prodPc = "streaming"
    /\ HandedOver
    /\ streamAttempts <= maxRetries
    /\ streamAttempts' = streamAttempts + 1
    /\ emitted' = 0
    /\ UNCHANGED <<provKind, disableStreaming, sendOk, streamCalled, sendCalls, eventChan,
                   chanCap, chanClosed, sent, prodPc, agentPc, consumed, agentResult,
                   ctxDone>>
    /\ UNCHANGED <<partsVars, convVars, sseVars, permVars, clientVars, extVars>>

\* openaiClient.stream: the end of the stream: complete, or an error.
\* An attempt that received nothing reports an empty response by an error after
\* which the channel stays open.
StreamEnd ==
    /\ prodPc = "streaming"
    /\ CanSend /\ HandedOver
    /\ \/ /\ Emit(ProviderEvent(EventComplete, StreamedResponse))
          /\ prodPc' = "closing"
       \/ /\ Emit(ProviderEvent(EventError, "none"))
          /\ prodPc' = "closing"
       \/ /\ emitted = 0
          /\ Emit(ProviderEvent(EventError, "none"))
          /\ prodPc' = "done"
    /\ UNCHANGED <<provKind, disableStreaming, sendOk, streamCalled, sendCalls, chanCap,
                   chanClosed, emitted, streamAttempts, agentPc, consumed, agentResult, ctxDone>>
    /\ UNCHANGED <<partsVars, convVars, sseVars, permVars, clientVars, extVars>>

\* openaiClient.stream: close(eventChan) after the terminal event was received.
StreamClose ==
    /\ prodPc = "closing"
    /\ HandedOver
    /\ chanClosed' = TRUE
    /\ prodPc' = "done"
    /\ UNCHANGED <<provKind, disableStreaming, sendOk, streamCalled, sendCalls, eventChan,
                   chanCap, sent, emitted, streamAttempts, agentPc, consumed, agentResult, ctxDone>>
    /\ UNCHANGED <<partsVars, convVars, sseVars, permVars, clientVars, extVars>>

\* The agent test's fakeProvider: a content delta, then complete, then it blocks on
\* ctx.Done() and returns without closing the channel.
FakeProviderStep ==
    /\ \/ /\ prodPc = "fp_delta"
          /\ Emit(ProviderEvent(EventContentDelta, "none"))
          /\ prodPc' = "fp_complete"
       \/ /\ prodPc = "fp_complete"
          /\ Emit(ProviderEvent(EventComplete, SendResponse))
          /\ prodPc' = "fp_wait"
       \/ /\ prodPc = "fp_wait"
          /\ ctxDone
          /\ prodPc' = "done"
          /\ UNCHANGED <<eventChan, sent>>
    /\ UNCHANGED <<provKind, disableStreaming, sendOk, streamCalled, sendCalls, chanCap,
                   chanClosed, emitted, streamAttempts, agentPc, consumed, agentResult, ctxDone>>
    /\ UNCHANGED <<partsVars, convVars, sseVars, permVars, clientVars, extVars>>

\* A loop that ends only with an error event or with the closure of the channel.
StopsReadingOnErrorOnly(ev) == ev.Type = EventError

\* The events after which streamAndHandleEvents stops reading the channel.
StopsReading(ev) == ev.Type \in {EventComplete, EventError}

\* streamAndHandleEvents: one iteration of the loop over the event channel:
\* processEvent, then the checks that end the loop.
AgentRecv ==
    /\ agentPc = "reading"
    /\ eventChan # <<>>
    /\ LET ev == Head(eventChan) IN
        /\ eventChan' = Tail(eventChan)
        /\ consumed' = Append(consumed, ev)
        /\ IF StopsReading(ev)
             THEN /\ agentPc' = "returned"
                  /\ agentResult' = IF ev.Type = EventError THEN "error" ELSE "ok"
             ELSE IF ctxDone
                    THEN /\ agentPc' = "returned"
                         /\ agentResult' = "canceled"
                    ELSE UNCHANGED <<agentPc, agentResult>>
    /\ UNCHANGED <<provKind, disableStreaming, sendOk, streamCalled, sendCalls, chanCap,
                   chanClosed, sent, prodPc, emitted, streamAttempts, ctxDone>>
    /\ UNCHANGED <<partsVars, convVars, sseVars, permVars, clientVars, extVars>>

\* streamAndHandleEvents: the channel is closed and drained: the loop ends.
AgentChanClosed ==
    /\ agentPc = "reading"
    /\ eventChan = <<>>
    /\ chanClosed
    /\ agentPc' = "returned"
    /\ agentResult' = "closed"
    /\ UNCHANGED <<provKind, disableStreaming, sendOk, streamCalled, sendCalls, eventChan,
                   chanCap, chanClosed, sent, prodPc, emitted, streamAttempts, consumed, ctxDone>>
    /\ UNCHANGED <<partsVars, convVars, sseVars, permVars, clientVars, extVars>>

\* The turn's context is canceled (Cancel, or the test's timeout).
CtxCancel ==
    /\ agentPc # "idle"
    /\ ~ctxDone
    /\ ctxDone' = TRUE
    /\ UNCHANGED <<provKind, disableStreaming, sendOk, streamCalled, sendCalls, eventChan,
                   chanCap, chanClosed, sent, prodPc, emitted, streamAttempts, agentPc, consumed,
                   agentResult>>
    /\ UNCHANGED <<partsVars, convVars, sseVars, permVars, clientVars, extVars>>

NextStream ==
    \/ StreamResponse
    \/ FallbackSend
    \/ FallbackClose
    \/ StreamEmit
    \/ StreamRetry
    \/ StreamEnd
    \/ StreamClose
    \/ FakeProviderStep
    \/ AgentRecv
    \/ AgentChanClosed
    \/ CtxCancel

InitSpecStream == InitStream /\ InitPartsIdle /\ InitConvIdle /\ InitSSE /\ InitPermIdle /\ InitClient /\ InitExtIdle

SpecStream == InitSpecStream /\ [][NextStream]_vars

\* C1: streamAndHandleEvents reads no event after the first complete or error event:
\* the event that is terminal is the last one it read, and it has returned, whether
\* or not the provider ever closes the channel.
StreamTerminatesOnTerminalEvent ==
    \A i \in 1..Len(consumed) :
        consumed[i].Type \in {EventComplete, EventError}
            => (i = Len(consumed) /\ agentPc = "returned")

\* C1 witness: the agent returned on complete while the channel was left open.
WitnessReturnedChannelOpen ==
    /\ provKind = "noclose"
    /\ agentPc = "returned"
    /\ consumed # <<>>
    /\ Last(consumed).Type = EventComplete
    /\ ~chanClosed

\* C2: with disable_streaming, StreamResponse does not call the client's stream; it
\* calls send exactly once, and when send succeeds the channel carries exactly one
\* event, complete with send's response, and is then closed.
DisableStreamingFallsBackToSend ==
    (disableStreaming /\ provKind \in {"openai", "fake"} /\ agentPc # "idle") =>
        /\ ~streamCalled
        /\ prodPc = "done" =>
              /\ sendCalls = 1
              /\ sendOk => /\ sent = <<ProviderEvent(EventComplete, SendResponse)>>
                           /\ chanClosed

(***************************************************************************)
(* The message-part codec (proto/message.go).  A JSON object is a function *)
(* from its keys to their values; a field tagged omitempty is left out     *)
(* when it holds its zero value, and a missing key decodes to the zero     *)
(* value.                                                                  *)
(***************************************************************************)
EmptyObject == [k \in {} |-> 0]

OmitEmpty(key, value, zero) == IF value = zero THEN EmptyObject ELSE key :> value

Field(obj, key, zero) == IF key \in DOMAIN obj THEN obj[key] ELSE zero

\* encoding/json writes a []byte as a base64 string and reads it back.
Base64Encode(bytes) == [base64 |-> bytes]
Base64Decode(str) == str.base64

reasoningType == "reasoning"
textType == "text"
imageURLType == "image_url"
binaryType == "binary"
toolCallType == "tool_call"
toolResultType == "tool_result"
finishType == "finish"

ReasoningContent(thinking, signature, startedAt, finishedAt) ==
    [kind |-> "ReasoningContent", Thinking |-> thinking, Signature |-> signature,
     StartedAt |-> startedAt, FinishedAt |-> finishedAt]
TextContent(text) == [kind |-> "TextContent", Text |-> text]
ImageURLContent(url, detail) == [kind |-> "ImageURLContent", URL |-> url, Detail |-> detail]
BinaryContent(path, mime, data) ==
    [kind |-> "BinaryContent", Path |-> path, MIMEType |-> mime, Data |-> data]
ToolCall(id, name, input, type, finished) ==
    [kind |-> "ToolCall", ID |-> id, Name |-> name, Input |-> input, Type |-> type,
     Finished |-> finished]
ToolResult(toolCallID, name, content, metadata, isError) ==
    [kind |-> "ToolResult", ToolCallID |-> toolCallID, Name |-> name, Content |-> content,
     Metadata |-> metadata, IsError |-> isError]
Finish(reason, time, message, details) ==
    [kind |-> "Finish", Reason |-> reason, Time |-> time, Message |-> message,
     Details |-> details]

\* The type tag MarshallParts gives a part.
PartTypeOf(part) ==
    CASE part.kind = "ReasoningContent" -> reasoningType
      [] part.kind = "TextContent" -> textType
      [] part.kind = "ImageURLContent" -> imageURLType
      [] part.kind = "BinaryContent" -> binaryType
      [] part.kind = "ToolCall" -> toolCallType
      [] part.kind = "ToolResult" -> toolResultType
      [] part.kind = "Finish" -> finishType

\* json.Marshal of a part, by the struct tags of its type.
MarshalPart(part) ==
    CASE part.kind = "ReasoningContent" ->
            ("thinking" :> part.Thinking) @@ ("signature" :> part.Signature)
            @@ OmitEmpty("started_at", part.StartedAt, 0)
            @@ OmitEmpty("finished_at", part.FinishedAt, 0)
      [] part.kind = "TextContent" -> ("text" :> part.Text)
      [] part.kind = "ImageURLContent" ->
            ("url" :> part.URL) @@ OmitEmpty("detail", part.Detail, "")
      [] part.kind = "BinaryContent" ->
            ("Path" :> part.Path) @@ ("MIMEType" :> part.MIMEType)
            @@ ("Data" :> Base64Encode(part.Data))
      [] part.kind = "ToolCall" ->
            ("id" :> part.ID) @@ ("name" :> part.Name) @@ ("input" :> part.Input)
            @@ OmitEmpty("type", part.Type, "")
            @@ OmitEmpty("finished", part.Finished, FALSE)
      [] part.kind = "ToolResult" ->
            ("tool_call_id" :> part.ToolCallID) @@ ("name" :> part.Name)
            @@ ("content" :> part.Content) @@ ("metadata" :> part.Metadata)
            @@ ("is_error" :> part.IsError)
      [] part.kind = "Finish" ->
            ("reason" :> part.Reason) @@ ("time" :> part.Time)
            @@ OmitEmpty("message", part.Message, "")
            @@ OmitEmpty("details", part.Details, "")

\* MarshallParts: the parts wrapped as [{type, data}, ...].
MarshallParts(ps) ==
    [i \in 1..Len(ps) |-> [type |-> PartTypeOf(ps[i]), data |-> MarshalPart(ps[i])]]

\* json.Unmarshal of a wrapper's data into the struct its type tag names.
UnmarshalPart(type, data) ==
    CASE type = reasoningType ->
            ReasoningContent(Field(data, "thinking", ""), Field(data, "signature", ""),
                             Field(data, "started_at", 0), Field(data, "finished_at", 0))
      [] type = textType -> TextContent(Field(data, "text", ""))
      [] type = imageURLType ->
            ImageURLContent(Field(data, "url", ""), Field(data, "detail", ""))
      [] type = binaryType ->
            BinaryContent(Field(data, "Path", ""), Field(data, "MIMEType", ""),
                          Base64Decode(Field(data, "Data", Base64Encode(<<>>))))
      [] type = toolCallType ->
            ToolCall(Field(data, "id", ""), Field(data, "name", ""),
                     Field(data, "input", ""), Field(data, "type", ""),
                     Field(data, "finished", FALSE))
      [] type = toolResultType ->
            ToolResult(Field(data, "tool_call_id", ""), Field(data, "name", ""),
                       Field(data, "content", ""), Field(data, "metadata", ""),
                       Field(data, "is_error", FALSE))
      [] type = finishType ->
            Finish(Field(data, "reason", ""), Field(data, "time", 0),
                   Field(data, "message", ""), Field(data, "details", ""))

KnownPartTypes == {reasoningType, textType, imageURLType, binaryType, toolCallType,
                   toolResultType, finishType}

\* The cases of UnmarshallParts' switch that append the decoded part to the result:
\* the image_url case decodes the part and does not append it.
AppendingPartTypes == KnownPartTypes \ {imageURLType}

RECURSIVE UnmarshallLoop(_, _)
UnmarshallLoop(wrapped, acc) ==
    IF wrapped = <<>> THEN [ok |-> TRUE, parts |-> acc]
    ELSE LET w == Head(wrapped) IN
         IF w.type \notin KnownPartTypes THEN NoResult
         ELSE UnmarshallLoop(Tail(wrapped),
                IF w.type \in AppendingPartTypes
                  THEN Append(acc, UnmarshalPart(w.type, w.data))
                  ELSE acc)

\* A decoder that leaves out the parts whose type tag it does not know.
RECURSIVE UnmarshallSkipLoop(_, _)
UnmarshallSkipLoop(wrapped, acc) ==
    IF wrapped = <<>> THEN [ok |-> TRUE, parts |-> acc]
    ELSE LET w == Head(wrapped) IN
         UnmarshallSkipLoop(Tail(wrapped),
            IF w.type \in AppendingPartTypes
              THEN Append(acc, UnmarshalPart(w.type, w.data))
              ELSE acc)

UnmarshallPartsSkippingUnknown(wrapped) == UnmarshallSkipLoop(wrapped, <<>>)

\* UnmarshallParts: the list of parts, or the error of an unknown type tag.
UnmarshallParts(wrapped) == UnmarshallLoop(wrapped, <<>>)

\* The parts the model stores: every variant, with the omitempty fields both set and not.
PartPool ==
    {TextContent(t) : t \in {"", "hi"}}
    \cup {ReasoningContent("hm", "", s, f) : s \in {0, 5}, f \in {0, 7}}
    \cup {ImageURLContent("u", d) : d \in {"", "high"}}
    \cup {BinaryContent("", "image/png", d) : d \in {<<>>, <<1, 2>>}}
    \cup {ToolCall("t1", "bash", "{}", ty, f) : ty \in {"", "function"}, f \in BOOLEAN}
    \cup {ToolResult("t1", "bash", "out", "", e) : e \in BOOLEAN}
    \cup {Finish("end_turn", 9, m, "") : m \in {"", "m"}}

PartLists == UNION {[1..n -> PartPool] : n \in 0..MaxParts}

InitParts ==
    /\ parts \in PartLists
    /\ partsPc = "input"
    /\ encoded = <<>>
    /\ decoded = NoResult

\* The parts are encoded by MarshallParts, as the message service does to store them.
StoreParts ==
    /\ partsPc = "input"
    /\ encoded' = MarshallParts(parts)
    /\ partsPc' = "encoded"
    /\ UNCHANGED <<parts, decoded>>
    /\ UNCHANGED <<streamVars, convVars, sseVars, permVars, clientVars, extVars>>

\* The encoded parts are decoded by UnmarshallParts, as the message service does to load them.
LoadParts ==
    /\ partsPc = "encoded"
    /\ decoded' = UnmarshallParts(encoded)
    /\ partsPc' = "decoded"
    /\ UNCHANGED <<parts, encoded>>
    /\ UNCHANGED <<streamVars, convVars, sseVars, permVars, clientVars, extVars>>

NextParts ==
    \/ StoreParts
    \/ LoadParts

InitSpecParts == InitStreamIdle /\ InitParts /\ InitConvIdle /\ InitSSE /\ InitPermIdle /\ InitClient /\ InitExtIdle

SpecParts == InitSpecParts /\ [][NextParts]_vars

\* C3: decoding the encoded parts succeeds and gives back the original list.
PartsRoundTrip ==
    partsPc = "decoded" => (decoded.ok /\ decoded.parts = parts)

(***************************************************************************)
(* The request built from the history (provider.go, openai.go).            *)
(***************************************************************************)
Message(role, ps) == [Role |-> role, Parts |-> ps]

IsTextPart(p) == p.kind = "TextContent"
IsToolCallPart(p) == p.kind = "ToolCall"
IsToolResultPart(p) == p.kind = "ToolResult"
IsFinished(call) == call.Finished

\* Message.Content: the first text part, or the empty text.
Content(m) ==
    LET texts == SelectSeq(m.Parts, IsTextPart)
    IN IF texts = <<>> THEN TextContent("") ELSE Head(texts)

\* Message.ToolCalls and Message.ToolResults.
ToolCalls(m) == SelectSeq(m.Parts, IsToolCallPart)
ToolResults(m) == SelectSeq(m.Parts, IsToolResultPart)

HasParts(m) == Len(m.Parts) # 0

\* baseProvider.cleanMessages: the messages without parts are dropped.
cleanMessages(messages) == SelectSeq(messages, HasParts)

systemMessage == "system prompt"

OpenAIMessage(role, content, calls, callId) ==
    [role |-> role, content |-> content, tool_calls |-> calls, tool_call_id |-> callId]

\* A conversion that forwards every tool call of the message.
EveryToolCall(m) == ToolCalls(m)

\* The tool calls of an assistant message that convertMessages sends again.
FinishedToolCalls(m) == SelectSeq(ToolCalls(m), IsFinished)

ToolCallParam(call) ==
    [ID |-> call.ID, Type |-> "function",
     Function |-> [Name |-> call.Name, Arguments |-> call.Input]]

ToolCallParams(calls) == [i \in 1..Len(calls) |-> ToolCallParam(calls[i])]

ToolMessages(results) ==
    [i \in 1..Len(results) |->
        OpenAIMessage("tool", results[i].Content, <<>>, results[i].ToolCallID)]

\* convertMessages: the messages one message of the history becomes.
convertMessage(m) ==
    CASE m.Role = "user" -> <<OpenAIMessage("user", Content(m).Text, <<>>, "")>>
      [] m.Role = "assistant" ->
            LET calls == ToolCallParams(FinishedToolCalls(m))
            IN IF Content(m).Text = "" /\ Len(calls) = 0
                 THEN <<>>
                 ELSE <<OpenAIMessage("assistant", Content(m).Text, calls, "")>>
      [] m.Role = "tool" -> ToolMessages(ToolResults(m))
      [] OTHER -> <<>>

RECURSIVE convertLoop(_)
convertLoop(messages) ==
    IF messages = <<>> THEN <<>>
    ELSE convertMessage(Head(messages)) \o convertLoop(Tail(messages))

\* convertMessages: the system message, then the converted history.
convertMessages(messages) ==
    <<OpenAIMessage("system", systemMessage, <<>>, "")>> \o convertLoop(messages)

\* convertMessagesSimple (compatibility mode): roles and texts only.
convertMessageSimple(m) ==
    CASE m.Role = "user" -> <<OpenAIMessage("user", Content(m).Text, <<>>, "")>>
      [] m.Role = "assistant" -> <<OpenAIMessage("assistant", Content(m).Text, <<>>, "")>>
      [] OTHER -> <<>>

RECURSIVE convertSimpleLoop(_)
convertSimpleLoop(messages) ==
    IF messages = <<>> THEN <<>>
    ELSE convertMessageSimple(Head(messages)) \o convertSimpleLoop(Tail(messages))

convertMessagesSimple(messages) ==
    (IF systemMessage # "" THEN <<OpenAIMessage("system", systemMessage, <<>>, "")>> ELSE <<>>)
    \o convertSimpleLoop(messages)

\* The flags of the tool calls of one assistant message: finished or interrupted.
CallFlags == UNION {[1..n -> BOOLEAN] : n \in 0..MaxCalls}

AssistantParts(text, flags) ==
    (IF text = "" THEN <<>> ELSE <<TextContent(text)>>)
    \o [i \in 1..Len(flags) |->
          ToolCall(nextCallId + i - 1, "bash", "{}", "function", flags[i])]

ResultFor(call) == ToolResult(call.ID, call.Name, "out", "", FALSE)

\* The sub-sequences of the calls of a message that a tool message may answer.
AnsweredCalls(calls) ==
    {SelectSeq(calls, LAMBDA c : c.ID \in ids) : ids \in (SUBSET {calls[i].ID : i \in 1..Len(calls)}) \ {{}}}

InitConv ==
    /\ history = <<>>
    /\ nextCallId = 1
    /\ compatibilityMode \in BOOLEAN
    /\ requestBuilt = FALSE
    /\ request = <<>>

\* message.Service.Create: the parts of a message whose role is not assistant are
\* stored with a Finish of reason stop after them.
WithStopFinish(ps) == Append(ps, Finish("stop", 0, "", ""))

\* The session's history grows by a user message ...
AddUserMessage ==
    /\ ~requestBuilt
    /\ Len(history) < MaxHistory
    /\ history' = Append(history, Message("user", WithStopFinish(<<TextContent("hi")>>)))
    /\ UNCHANGED <<nextCallId, compatibilityMode, requestBuilt, request>>
    /\ UNCHANGED <<streamVars, partsVars, sseVars, permVars, clientVars, extVars>>

\* ... by an assistant message, whose tool calls are finished or were interrupted ...
AddAssistantMessage ==
    /\ ~requestBuilt
    /\ Len(history) < MaxHistory
    /\ \E text \in {"", "done"}, flags \in CallFlags :
          /\ history' = Append(history, Message("assistant", AssistantParts(text, flags)))
          /\ nextCallId' = nextCallId + Len(flags)
    /\ UNCHANGED <<compatibilityMode, requestBuilt, request>>
    /\ UNCHANGED <<streamVars, partsVars, sseVars, permVars, clientVars, extVars>>

\* ... or by the tool message that answers tool calls of the assistant message before it.
AddToolMessage ==
    /\ ~requestBuilt
    /\ Len(history) < MaxHistory
    /\ history # <<>>
    /\ Last(history).Role = "assistant"
    /\ \E calls \in AnsweredCalls(ToolCalls(Last(history))) :
          history' = Append(history,
                        Message("tool", WithStopFinish([i \in 1..Len(calls) |->
                                                          ResultFor(calls[i])])))
    /\ UNCHANGED <<nextCallId, compatibilityMode, requestBuilt, request>>
    /\ UNCHANGED <<streamVars, partsVars, sseVars, permVars, clientVars, extVars>>

\* StreamResponse / SendMessages: cleanMessages, then the client converts the history.
BuildRequest ==
    /\ ~requestBuilt
    /\ request' = IF compatibilityMode
                    THEN convertMessagesSimple(cleanMessages(history))
                    ELSE convertMessages(cleanMessages(history))
    /\ requestBuilt' = TRUE
    /\ UNCHANGED <<history, nextCallId, compatibilityMode>>
    /\ UNCHANGED <<streamVars, partsVars, sseVars, permVars, clientVars, extVars>>

NextConv ==
    \/ AddUserMessage
    \/ AddAssistantMessage
    \/ AddToolMessage
    \/ BuildRequest

InitSpecConv == InitStreamIdle /\ InitPartsIdle /\ InitConv /\ InitSSE /\ InitPermIdle /\ InitClient /\ InitExtIdle

SpecConv == InitSpecConv /\ [][NextConv]_vars

\* The tool calls of the history, and the ids of those that were interrupted.
HistoryToolCalls ==
    UNION {{ToolCalls(history[i])[j] : j \in 1..Len(ToolCalls(history[i]))}
              : i \in 1..Len(history)}

UnfinishedCallIds == {c.ID : c \in {d \in HistoryToolCalls : ~d.Finished}}

RequestCallIds(msg) == {msg.tool_calls[j].ID : j \in 1..Len(msg.tool_calls)}

\* C4: the request holds no tool call of the history that was not finished.
NoUnfinishedToolCallSent ==
    requestBuilt =>
        \A i \in 1..Len(request) : RequestCallIds(request[i]) \cap UnfinishedCallIds = {}

\* C4 witness: a message with a finished and an interrupted call was converted, and
\* the request carries a tool call.
WitnessInterruptedCallStripped ==
    /\ requestBuilt
    /\ ~compatibilityMode
    /\ \E i \in 1..Len(history) :
          /\ history[i].Role = "assistant"
          /\ FinishedToolCalls(history[i]) # <<>>
          /\ Len(FinishedToolCalls(history[i])) < Len(ToolCalls(history[i]))
    /\ \E i \in 1..Len(request) : request[i].tool_calls # <<>>

\* The assistant message a tool message of the request answers: the nearest
\* assistant message before it, with only tool messages in between.
PrecedingAssistant(i) ==
    LET before == {k \in 1..(i - 1) :
                      /\ request[k].role = "assistant"
                      /\ \A l \in (k + 1)..(i - 1) : request[l].role = "tool"}
    IN before

\* C5: every tool message of the request answers a tool call of the assistant message
\* before it.
ToolResultsMatchPrecedingCalls ==
    requestBuilt =>
        \A i \in 1..Len(request) :
            request[i].role = "tool" =>
                \E k \in PrecedingAssistant(i) :
                    request[i].tool_call_id \in RequestCallIds(request[k])

(***************************************************************************)
(* The SSE endpoint GET /v1/instances/{id}/events (server/proto.go).       *)
(* Every handler receives from the channel App.Events() returns.           *)
(***************************************************************************)
EventTypes == {"created", "updated"}
PayloadTags == {"message", "session"}

Event(n, type, tag) == [Id |-> n, Type |-> type, Tag |-> tag]

\* Event.MarshalJSON: the envelope {type, payload: {type: <tag>, payload}}.
MarshalEvent(ev) ==
    [type |-> ev.Type, payload |-> [type |-> ev.Tag, payload |-> ev.Id]]

\* fmt.Fprintf(w, "data: %s\n\n", data): one frame, holding the events given.
Frame(evs) == [data |-> [i \in 1..Len(evs) |-> MarshalEvent(evs[i])]]

\* A client connects: handleGetInstanceEvents finds the instance and enters its loop.
SSEConnect(c) ==
    /\ ~sseConnected[c]
    /\ sseFrames[c] = <<>>
    /\ sseConnected' = [sseConnected EXCEPT ![c] = TRUE]
    /\ sseJoinedAt' = [sseJoinedAt EXCEPT ![c] = Len(published)]
    /\ UNCHANGED <<published, appEvents, sseFrames>>
    /\ UNCHANGED <<streamVars, partsVars, convVars, permVars, clientVars, extVars>>

\* A service of the instance publishes an event, which reaches the App's channel.
SSEPublish ==
    /\ Len(published) < MaxPublished
    /\ \E type \in EventTypes, tag \in PayloadTags :
          LET ev == Event(Len(published) + 1, type, tag) IN
          /\ published' = Append(published, ev)
          /\ appEvents' = Append(appEvents, ev)
    /\ UNCHANGED <<sseConnected, sseJoinedAt, sseFrames>>
    /\ UNCHANGED <<streamVars, partsVars, convVars, permVars, clientVars, extVars>>

\* handleGetInstanceEvents, case ev := <-ins.App.Events(): marshal, write, flush.
SSEWrite(c) ==
    /\ sseConnected[c]
    /\ appEvents # <<>>
    /\ appEvents' = Tail(appEvents)
    /\ sseFrames' = [sseFrames EXCEPT ![c] = Append(@, Frame(<<Head(appEvents)>>))]
    /\ UNCHANGED <<published, sseConnected, sseJoinedAt>>
    /\ UNCHANGED <<streamVars, partsVars, convVars, permVars, clientVars, extVars>>

\* handleGetInstanceEvents, case <-r.Context().Done(): the handler returns.
SSEDisconnect(c) ==
    /\ sseConnected[c]
    /\ sseConnected' = [sseConnected EXCEPT ![c] = FALSE]
    /\ UNCHANGED <<published, appEvents, sseJoinedAt, sseFrames>>
    /\ UNCHANGED <<streamVars, partsVars, convVars, permVars, clientVars, extVars>>

NextSSE ==
    \/ \E c \in Clients : SSEConnect(c)
    \/ SSEPublish
    \/ \E c \in Clients : SSEWrite(c)
    \/ \E c \in Clients : SSEDisconnect(c)

InitSpecSSE == InitStreamIdle /\ InitPartsIdle /\ InitConvIdle /\ InitSSE /\ InitPermIdle /\ InitClient /\ InitExtIdle

SpecSSE == InitSpecSSE /\ [][NextSSE]_vars

RECURSIVE FrameData(_)
FrameData(frames) ==
    IF frames = <<>> THEN <<>> ELSE Head(frames).data \o FrameData(Tail(frames))

IsPrefix(s, t) == Len(s) <= Len(t) /\ SubSeq(t, 1, Len(s)) = s

MarshalAll(evs) == [i \in 1..Len(evs) |-> MarshalEvent(evs[i])]

\* A client that connected before the first event was published.
ConnectedFromStart(c) == sseConnected[c] /\ sseJoinedAt[c] = 0

\* C6: every frame holds exactly one event, and a client connected from the start is
\* sent e1, e2, ... in the order of publication.
SSEFramesInPublicationOrder ==
    \A c \in Clients :
        /\ \A i \in 1..Len(sseFrames[c]) : Len(sseFrames[c][i].data) = 1
        /\ ConnectedFromStart(c) =>
              IsPrefix(FrameData(sseFrames[c]), MarshalAll(published))

\* C7: once no event is waiting, every client connected from the start has been sent
\* every event published.
SSEEveryClientGetsEveryEvent ==
    appEvents = <<>> =>
        \A c \in Clients :
            ConnectedFromStart(c) => FrameData(sseFrames[c]) = MarshalAll(published)

\* ======================================================================
\* The permission gate and the tools
\* ======================================================================
MaxRuns == 2
MaxItems == 1

SessionID == "s1"
OtherSessionID == "s2"
Sessions == {"", SessionID}

LSPRestartToolName == "lsp_restart"
TodoWriteToolName == "todo_write"
TodoDeleteToolName == "todo_delete"
ContextToolName == "context"

PermissionAllow == "allow"
PermissionAllowForSession == "allow_session"
PermissionDeny == "deny"
PermissionActions == {PermissionAllow, PermissionAllowForSession, PermissionDeny}

\* the tool call the agent starts next
NewRun(tool, session, input) ==
    [id |-> toolRun.id + 1, tool |-> tool, session |-> session, input |-> input]

CanRun == toolPc # "waiting" /\ toolRun.id < MaxRuns

\* ---- the gate's decision on Request(req), before it blocks.  Request takes the
\* request only (CreatePermissionRequest has no context); the steps of its decision
\* are those of the gate's documented algorithm: global auto-allow, auto-approved
\* session, persistent grant, else a pending request that waits for the UI's reply.
RequestKey(run) == <<run.session, run.tool, run.input>>

AllowsWithoutAsking(run) ==
    \/ skipRequests
    \/ run.session \in autoApproved
    \/ RequestKey(run) \in persistentGrants

GateCall(run, allowed) == [run |-> run.id, tool |-> run.tool, allowed |-> allowed]

Effect(run, op) == [run |-> run.id, tool |-> run.tool, op |-> op]

\* ---- lsp_restart
LSPNames == {"", "gopls"}

\* what Run does once Request returned p
AfterRequest(run, p) ==
    IF p
    THEN /\ effects' = effects \cup {Effect(run, "restart")}
         /\ toolResponse' = "ok"
    ELSE /\ effects' = effects
         /\ toolResponse' = "denied"

LSPRestartRun ==
    /\ CanRun
    /\ \E session \in Sessions, name \in LSPNames :
        LET run == NewRun(LSPRestartToolName, session, [NoInput EXCEPT !.name = name]) IN
        /\ toolRun' = run
        /\ toolCtxDone' = FALSE
        /\ IF session = "" \/ name = ""
           THEN /\ toolResponse' = "error"
                /\ toolPc' = "done"
                /\ UNCHANGED <<pendingReply, gateCalls, effects>>
           ELSE IF AllowsWithoutAsking(run)
           THEN /\ gateCalls' = gateCalls \cup {GateCall(run, TRUE)}
                /\ AfterRequest(run, TRUE)
                /\ toolPc' = "done"
                /\ UNCHANGED pendingReply
           ELSE /\ pendingReply' = "open"
                /\ toolPc' = "waiting"
                /\ UNCHANGED <<gateCalls, effects, toolResponse>>
    /\ UNCHANGED <<skipRequests, autoApproved, persistentGrants, todos, nextTodoId>>
    /\ UNCHANGED <<streamVars, partsVars, convVars, sseVars, clientVars, extVars>>

\* ---- the UI's answer to the pending request
PermissionsGrant(action) ==
    /\ pendingReply = "open"
    /\ pendingReply' = action
    /\ UNCHANGED <<toolPc, toolRun, toolCtxDone, toolResponse, skipRequests, autoApproved,
                   persistentGrants, gateCalls, effects, todos, nextTodoId>>
    /\ UNCHANGED <<streamVars, partsVars, convVars, sseVars, clientVars, extVars>>

\* ---- Request returns with the reply, and Run goes on
RequestReturn ==
    /\ toolPc = "waiting"
    /\ pendingReply \in PermissionActions
    /\ LET p == pendingReply # PermissionDeny IN
        /\ gateCalls' = gateCalls \cup {GateCall(toolRun, p)}
        /\ AfterRequest(toolRun, p)
    /\ persistentGrants' = IF pendingReply = PermissionAllowForSession
                           THEN persistentGrants \cup {RequestKey(toolRun)}
                           ELSE persistentGrants
    /\ pendingReply' = "none"
    /\ toolPc' = "done"
    /\ UNCHANGED <<toolRun, toolCtxDone, skipRequests, autoApproved, todos, nextTodoId>>
    /\ UNCHANGED <<streamVars, partsVars, convVars, sseVars, clientVars, extVars>>

\* ---- the context of the tool call is canceled while Run is blocked
ToolCtxCancel ==
    /\ toolPc = "waiting"
    /\ ~toolCtxDone
    /\ toolCtxDone' = TRUE
    /\ UNCHANGED <<toolPc, toolRun, toolResponse, skipRequests, autoApproved, persistentGrants,
                   pendingReply, gateCalls, effects, todos, nextTodoId>>
    /\ UNCHANGED <<streamVars, partsVars, convVars, sseVars, clientVars, extVars>>

SetSkipRequests(skip) ==
    /\ skipRequests' = skip
    /\ UNCHANGED <<toolPc, toolRun, toolCtxDone, toolResponse, autoApproved, persistentGrants,
                   pendingReply, gateCalls, effects, todos, nextTodoId>>
    /\ UNCHANGED <<streamVars, partsVars, convVars, sseVars, clientVars, extVars>>

AutoApproveSession(session) ==
    /\ autoApproved' = autoApproved \cup {session}
    /\ UNCHANGED <<toolPc, toolRun, toolCtxDone, toolResponse, skipRequests, persistentGrants,
                   pendingReply, gateCalls, effects, todos, nextTodoId>>
    /\ UNCHANGED <<streamVars, partsVars, convVars, sseVars, clientVars, extVars>>

\* ---- the todo store (todo.go, db/sql/todos.sql)
StatusPending == "pending"
StatusInProgress == "in_progress"
StatusCompleted == "completed"
ValidStatuses == {StatusPending, StatusInProgress, StatusCompleted}

NoID == 0   \* stands for the empty ID of a TodoItem; the store's ids are 1, 2, ...

TodoItem(id, content, status) == [ID |-> id, Content |-> content, Status |-> status]

\* what the loop of a todo tool carries: the store and what the loop did
LoopState(store, next) ==
    [todos |-> store, next |-> next, results |-> 0, errors |-> 0, acts |-> {}]

LoopError(st) == [st EXCEPT !.errors = @ + 1]

Create(st, item) ==
    [st EXCEPT !.todos = @ \cup {TodoItem(st.next, item.Content, item.Status)},
               !.next = @ + 1,
               !.results = @ + 1,
               !.acts = @ \cup {"create"}]

Update(st, item) ==
    IF \E t \in st.todos : t.ID = item.ID
    THEN [st EXCEPT !.todos = {t \in @ : t.ID # item.ID}
                                \cup {TodoItem(item.ID, item.Content, item.Status)},
                    !.results = @ + 1,
                    !.acts = @ \cup {"update"}]
    ELSE LoopError(st)

Delete(st, id) ==
    [st EXCEPT !.todos = {t \in @ : t.ID # id},
               !.results = @ + 1,
               !.acts = IF \E t \in st.todos : t.ID = id
                        THEN @ \cup {"delete"} ELSE @]

RECURSIVE todoWriteLoop(_, _)
todoWriteLoop(items, st) ==
    IF items = <<>> THEN st
    ELSE LET item == Head(items) IN
         todoWriteLoop(Tail(items),
            IF item.Content = "" THEN LoopError(st)
            ELSE IF item.Status \notin ValidStatuses THEN LoopError(st)
            ELSE IF item.ID = NoID THEN Create(st, item)
            ELSE Update(st, item))

RECURSIVE todoDeleteLoop(_, _)
todoDeleteLoop(ids, st) ==
    IF ids = <<>> THEN st
    ELSE todoDeleteLoop(Tail(ids),
            IF Head(ids) = NoID THEN LoopError(st) ELSE Delete(st, Head(ids)))

LoopResponse(st) == IF st.errors > 0 /\ st.results = 0 THEN "error" ELSE "ok"

SeqsUpTo(S, n) == UNION {[1..k -> S] : k \in 0..n}

TodoItemPool ==
    {TodoItem(NoID, "a", StatusPending), TodoItem(NoID, "", StatusPending),
     TodoItem(1, "b", StatusCompleted), TodoItem(1, "b", "bogus")}

TodoIDPool == {NoID, 1}

\* the part of a todo tool's Run after its loop
TodoToolReturn(run, st) ==
    /\ todos' = st.todos
    /\ nextTodoId' = st.next
    /\ effects' = effects \cup {Effect(run, op) : op \in st.acts}
    /\ toolResponse' = LoopResponse(st)

TodoWriteRun ==
    /\ CanRun
    /\ \E session \in Sessions, items \in SeqsUpTo(TodoItemPool, MaxItems) :
        LET run == NewRun(TodoWriteToolName, session, [NoInput EXCEPT !.todos = items]) IN
        /\ toolRun' = run
        /\ IF items = <<>> \/ session = ""
           THEN /\ toolResponse' = "error"
                /\ UNCHANGED <<todos, nextTodoId, effects>>
           ELSE TodoToolReturn(run, todoWriteLoop(items, LoopState(todos, nextTodoId)))
    /\ toolPc' = "done"
    /\ toolCtxDone' = FALSE
    /\ UNCHANGED <<skipRequests, autoApproved, persistentGrants, pendingReply, gateCalls>>
    /\ UNCHANGED <<streamVars, partsVars, convVars, sseVars, clientVars, extVars>>

TodoDeleteRun ==
    /\ CanRun
    /\ \E session \in Sessions, ids \in SeqsUpTo(TodoIDPool, MaxItems) :
        LET run == NewRun(TodoDeleteToolName, session, [NoInput EXCEPT !.ids = ids]) IN
        /\ toolRun' = run
        /\ IF ids = <<>>
           THEN /\ toolResponse' = "error"
                /\ UNCHANGED <<todos, nextTodoId, effects>>
           ELSE TodoToolReturn(run, todoDeleteLoop(ids, LoopState(todos, nextTodoId)))
    /\ toolPc' = "done"
    /\ toolCtxDone' = FALSE
    /\ UNCHANGED <<skipRequests, autoApproved, persistentGrants, pendingReply, gateCalls>>
    /\ UNCHANGED <<streamVars, partsVars, convVars, sseVars, clientVars, extVars>>

\* ---- the context tool (context.go); a path is the sequence of its elements,
\* an absolute path starts with the root "/"
Root == "/"
WorkingDir == <<Root, "work">>
IsAbs(path) == path # <<>> /\ path[1] = Root
Join(dir, path) == dir \o path

DefaultContextPaths ==
    <<<<"CLAUDE.md">>, <<"CLAUDE.local.md">>, <<".cursorrules">>, <<"crush.md">>, <<"CRUSH.md">>>>

\* the regular files of the machine
Files == {<<Root, "etc", "passwd">>, <<Root, "work", "CRUSH.md">>}

ContextPathPool == {<<Root, "etc", "passwd">>, <<"CRUSH.md">>, <<"missing.md">>}

AbsolutePath(path) == IF IsAbs(path) THEN path ELSE Join(WorkingDir, path)

\* the files processContextPaths reads
FilesRead(paths) == {AbsolutePath(paths[i]) : i \in 1..Len(paths)} \cap Files

ContextRun ==
    /\ CanRun
    /\ \E session \in Sessions, paths \in SeqsUpTo(ContextPathPool, MaxItems) :
        LET run == NewRun(ContextToolName, session, [NoInput EXCEPT !.paths = paths])
            contextPaths == IF paths = <<>> THEN DefaultContextPaths ELSE paths
            read == FilesRead(contextPaths) IN
        /\ toolRun' = run
        /\ effects' = effects \cup {Effect(run, "read") : f \in read}
        /\ toolResponse' = "ok"
    /\ toolPc' = "done"
    /\ toolCtxDone' = FALSE
    /\ UNCHANGED <<skipRequests, autoApproved, persistentGrants, pendingReply, gateCalls,
                   todos, nextTodoId>>
    /\ UNCHANGED <<streamVars, partsVars, convVars, sseVars, clientVars, extVars>>

NextPerm ==
    \/ LSPRestartRun
    \/ \E action \in PermissionActions : PermissionsGrant(action)
    \/ RequestReturn
    \/ ToolCtxCancel
    \/ \E skip \in BOOLEAN : SetSkipRequests(skip)
    \/ AutoApproveSession(SessionID)
    \/ TodoWriteRun
    \/ TodoDeleteRun
    \/ ContextRun

InitPerm == \E skip \in BOOLEAN : InitGate(skip)

InitSpecPerm == InitStreamIdle /\ InitPartsIdle /\ InitConvIdle /\ InitSSE /\ InitPerm /\ InitClient /\ InitExtIdle

\* a goroutine blocked on a reply channel that holds a reply is scheduled
SpecPerm == InitSpecPerm /\ [][NextPerm]_vars /\ WF_vars(RequestReturn)

Replied == pendingReply \in PermissionActions

\* C8: a tool blocked in Request returns once a reply is delivered or once the
\* context of its call is canceled; no Request blocks forever in either case.
PermissionRequestResolves ==
    (toolPc = "waiting" /\ (Replied \/ toolCtxDone)) ~> (toolPc # "waiting")

\* C9: a tool acts only after the permission gate returned allowed to it: every
\* effect of a tool call (a todo created, updated or deleted, a file read, an
\* LSP client restarted) follows an allowed Request of that call.
ToolsActOnlyAfterGateAllows ==
    \A e \in effects :
        \E g \in gateCalls : g.run = e.run /\ g.tool = e.tool /\ g.allowed

\* ======================================================================
\* The client's SSE reader
\* ======================================================================
EventBuffer == 100
MaxWire == 102
MaxReadErrors == 2

\* the goroutine of SubscribeEvents read a data line and decoded its event;
\* the events on the wire are numbered 1, 2, ...
ReaderDecode ==
    /\ readerPc = "reading"
    /\ readErrors = 0
    /\ wire < MaxWire
    /\ wire' = wire + 1
    /\ readerPc' = "sending"
    /\ UNCHANGED <<evc, evcClosed, clientCtxDone, delivered>>
    /\ UNCHANGED <<streamVars, partsVars, convVars, sseVars, permVars, extVars>>

\* the response body ended
ReaderEOF ==
    /\ readerPc = "reading"
    /\ readErrors = 0
    /\ readerPc' = "ended"
    /\ UNCHANGED <<wire, evc, evcClosed, clientCtxDone, delivered>>
    /\ UNCHANGED <<streamVars, partsVars, convVars, sseVars, permVars, extVars>>

\* sendEvent: the case evc <- ev
SendEventSend ==
    /\ readerPc = "sending"
    /\ IF evcClosed
       THEN /\ readerPc' = "panicked"     \* send on a closed channel
            /\ evc' = evc
       ELSE /\ Len(evc) < EventBuffer
            /\ evc' = Append(evc, wire)
            /\ readerPc' = "reading"
    /\ UNCHANGED <<wire, evcClosed, clientCtxDone, delivered>>
    /\ UNCHANGED <<streamVars, partsVars, convVars, sseVars, permVars, extVars>>

\* sendEvent: the case <-ctx.Done()
SendEventCtxDone ==
    /\ readerPc = "sending"
    /\ clientCtxDone
    /\ IF evcClosed
       THEN /\ readerPc' = "panicked"     \* close of a closed channel
            /\ evcClosed' = evcClosed
       ELSE /\ evcClosed' = TRUE
            /\ readerPc' = "reading"
    /\ UNCHANGED <<wire, evc, clientCtxDone, delivered>>
    /\ UNCHANGED <<streamVars, partsVars, convVars, sseVars, permVars, extVars>>

\* the consumer receives from the channel
ConsumerReceive ==
    /\ evc # <<>>
    /\ evc' = Tail(evc)
    /\ delivered' = delivered + 1
    /\ UNCHANGED <<wire, evcClosed, readerPc, clientCtxDone>>
    /\ UNCHANGED <<streamVars, partsVars, convVars, sseVars, permVars, extVars>>

ClientCtxCancel ==
    /\ ~clientCtxDone
    /\ clientCtxDone' = TRUE
    /\ UNCHANGED <<wire, evc, evcClosed, readerPc, delivered>>
    /\ UNCHANGED <<streamVars, partsVars, convVars, sseVars, permVars, extVars>>

\* ReadBytes returns an error that is not io.EOF (the connection broke, or the
\* context of the request was canceled): slog.Error, time.Sleep, continue.  The
\* body gives the error again at each later read.
ReaderReadError ==
    /\ readerPc = "reading"
    /\ readErrors < MaxReadErrors
    /\ readErrors' = readErrors + 1
    /\ UNCHANGED notBody

sendEvent == SendEventSend \/ SendEventCtxDone

NextClient ==
    \/ ReaderDecode
    \/ ReaderEOF
    \/ ReaderReadError
    \/ SendEventSend
    \/ SendEventCtxDone
    \/ ConsumerReceive
    \/ ClientCtxCancel

InitSpecClient ==
    InitStreamIdle /\ InitPartsIdle /\ InitConvIdle /\ InitSSE /\ InitPermIdle /\ InitClient /\ InitExtIdle

SpecClient == InitSpecClient /\ [][NextClient]_vars

\* C10: the channel drops on backpressure: when the reader holds a decoded
\* event and the buffer is full, sendEvent does not block (the event is
\* dropped and the reader goes on reading).
SendEventNeverBlocksOnFullBuffer ==
    (readerPc = "sending" /\ Len(evc) >= EventBuffer) => ENABLED sendEvent

\* ======================================================================
\* The event envelope: Event.MarshalJSON on the server, the reader of
\* SubscribeEvents and Event.UnmarshalJSON on the client
\* ======================================================================
CreatedEvent == "created"
UpdatedEvent == "updated"
DeletedEvent == "deleted"

PayloadTypeLSPEvent == "lsp_event"
PayloadTypeMCPEvent == "mcp_event"
PayloadTypePermissionRequest == "permission_request"
PayloadTypePermissionNotification == "permission_notification"
PayloadTypeMessage == "message"
PayloadTypeSession == "session"
PayloadTypeFile == "file"
PayloadTypeAgentEvent == "agent_event"

PayloadTypes ==
    {PayloadTypeLSPEvent, PayloadTypeMCPEvent, PayloadTypePermissionRequest,
     PayloadTypePermissionNotification, PayloadTypeMessage, PayloadTypeSession,
     PayloadTypeFile, PayloadTypeAgentEvent}

\* The payloads; a field of type error holds the error's text, "" for nil.
LSPEvent(type, name, state, err, count) ==
    [Type |-> type, Name |-> name, State |-> state, Error |-> err, DiagnosticCount |-> count]
MCPEvent(type, name, state, err, count) ==
    [Type |-> type, Name |-> name, State |-> state, Error |-> err, ToolCount |-> count]
PermissionRequest(id, toolCallID, toolName, params) ==
    [ID |-> id, ToolCallID |-> toolCallID, ToolName |-> toolName, Params |-> params]
PermissionNotification(toolCallID, granted, denied) ==
    [ToolCallID |-> toolCallID, Granted |-> granted, Denied |-> denied]
ProtoMessage(id, role, ps) == [ID |-> id, Role |-> role, Parts |-> ps]
Session(id, title, count) == [ID |-> id, Title |-> title, MessageCount |-> count]
File(id, path, version) == [ID |-> id, Path |-> path, Version |-> version]
AgentEvent(type, msg, err, sessionID, progress, done) ==
    [Type |-> type, Message |-> msg, Error |-> err, SessionID |-> sessionID,
     Progress |-> progress, Done |-> done]

TypedEvent(type, tag, payload) == [Type |-> type, Tag |-> tag, Payload |-> payload]

MCPRestartToolName == "mcp_restart"
ListMCPsToolName == "list_mcps"
ListLSPsToolName == "list_lsps"

\* Tools that call permissions.Request with their own name.
GateOnlyTools == {LSPRestartToolName, MCPRestartToolName, ListMCPsToolName, ListLSPsToolName}

\* The tools whose permission parameters PermissionRequest.UnmarshalJSON knows.
BashToolName == "bash"
PermissionParamsTools ==
    {BashToolName, "download", "edit", "write", "multiedit", "fetch", "view", "ls"}

\* json.Marshal of a value of type error: nil is left out by omitempty, and an
\* error made by errors.New or fmt.Errorf has no exported field: {}.
MarshalError(key, err) == IF err = "" THEN EmptyObject ELSE (key :> EmptyObject)

\* Message.MarshalJSON: the parts are encoded by MarshallParts.
MessageMarshalJSON(m) ==
    ("id" :> m.ID) @@ ("role" :> m.Role) @@ ("parts" :> MarshallParts(m.Parts))

\* json.Marshal(e.Payload), by the payload's type.
MarshalPayload(tag, p) ==
    CASE tag = PayloadTypeLSPEvent ->
            ("type" :> p.Type) @@ ("name" :> p.Name) @@ ("state" :> p.State)
            @@ MarshalError("error", p.Error)
            @@ OmitEmpty("diagnostic_count", p.DiagnosticCount, 0)
      [] tag = PayloadTypeMCPEvent ->
            ("type" :> p.Type) @@ ("name" :> p.Name) @@ ("state" :> p.State)
            @@ MarshalError("error", p.Error)
            @@ OmitEmpty("tool_count", p.ToolCount, 0)
      [] tag = PayloadTypePermissionRequest ->
            ("id" :> p.ID) @@ ("tool_call_id" :> p.ToolCallID)
            @@ ("tool_name" :> p.ToolName) @@ ("params" :> p.Params)
      [] tag = PayloadTypePermissionNotification ->
            ("tool_call_id" :> p.ToolCallID) @@ ("granted" :> p.Granted)
            @@ ("denied" :> p.Denied)
      [] tag = PayloadTypeMessage -> MessageMarshalJSON(p)
      [] tag = PayloadTypeSession ->
            ("id" :> p.ID) @@ ("title" :> p.Title) @@ ("message_count" :> p.MessageCount)
      [] tag = PayloadTypeFile ->
            ("id" :> p.ID) @@ ("path" :> p.Path) @@ ("version" :> p.Version)
      [] tag = PayloadTypeAgentEvent ->
            ("type" :> p.Type) @@ ("message" :> MessageMarshalJSON(p.Message))
            @@ OmitEmpty("error", p.Error, "")
            @@ OmitEmpty("session_id", p.SessionID, "")
            @@ OmitEmpty("progress", p.Progress, "")
            @@ OmitEmpty("done", p.Done, FALSE)

\* Event.MarshalJSON: {type, payload: {type: <tag>, payload: <the payload>}}.
EventMarshalJSON(ev) ==
    [type |-> ev.Type,
     payload |-> [type |-> ev.Tag, payload |-> MarshalPayload(ev.Tag, ev.Payload)]]

\* The outcome of a json.Unmarshal: the value, an error, or a panic.
Decoded(value) == [outcome |-> "ok", value |-> value]
DecodeError == [outcome |-> "error", value |-> <<>>]
DecodePanic == [outcome |-> "panic", value |-> <<>>]

\* Message.UnmarshalJSON: the parts are decoded by UnmarshallParts, which fails
\* on the empty input an object without "parts" leaves.
MessageUnmarshalJSON(data) ==
    IF "parts" \notin DOMAIN data THEN DecodeError
    ELSE LET ps == UnmarshallParts(data["parts"]) IN
         IF ps.ok
         THEN Decoded(ProtoMessage(Field(data, "id", ""), Field(data, "role", ""), ps.parts))
         ELSE DecodeError

\* json.Unmarshal(wp.Payload, &p), p of the type the tag names.  A JSON object
\* cannot be decoded into a field of type error.
UnmarshalPayload(tag, data) ==
    CASE tag = PayloadTypeLSPEvent ->
            IF "error" \in DOMAIN data THEN DecodeError
            ELSE Decoded(LSPEvent(Field(data, "type", ""), Field(data, "name", ""),
                                  Field(data, "state", ""), "",
                                  Field(data, "diagnostic_count", 0)))
      [] tag = PayloadTypeMCPEvent ->
            IF "error" \in DOMAIN data THEN DecodeError
            ELSE Decoded(MCPEvent(Field(data, "type", ""), Field(data, "name", ""),
                                  Field(data, "state", ""), "",
                                  Field(data, "tool_count", 0)))
      [] tag = PayloadTypePermissionRequest ->
            IF Field(data, "tool_name", "") \notin PermissionParamsTools THEN DecodePanic
            ELSE IF "params" \notin DOMAIN data THEN DecodeError
            ELSE Decoded(PermissionRequest(Field(data, "id", ""),
                                           Field(data, "tool_call_id", ""),
                                           Field(data, "tool_name", ""),
                                           data["params"]))
      [] tag = PayloadTypePermissionNotification ->
            Decoded(PermissionNotification(Field(data, "tool_call_id", ""),
                                           Field(data, "granted", FALSE),
                                           Field(data, "denied", FALSE)))
      [] tag = PayloadTypeMessage -> MessageUnmarshalJSON(data)
      [] tag = PayloadTypeSession ->
            Decoded(Session(Field(data, "id", ""), Field(data, "title", ""),
                            Field(data, "message_count", 0)))
      [] tag = PayloadTypeFile ->
            Decoded(File(Field(data, "id", ""), Field(data, "path", ""),
                         Field(data, "version", 0)))
      [] tag = PayloadTypeAgentEvent ->
            LET msg == IF "message" \in DOMAIN data
                       THEN MessageUnmarshalJSON(data["message"])
                       ELSE Decoded(ProtoMessage("", "", <<>>)) IN
            IF msg.outcome # "ok" THEN msg
            ELSE Decoded(AgentEvent(Field(data, "type", ""), msg.value,
                                    Field(data, "error", ""),
                                    Field(data, "session_id", ""),
                                    Field(data, "progress", ""),
                                    Field(data, "done", FALSE)))

\* Event.UnmarshalJSON: the envelope, then the payload by its tag; an unknown tag panics.
EventUnmarshalJSON(data) ==
    IF data.payload.type \notin PayloadTypes THEN DecodePanic
    ELSE LET p == UnmarshalPayload(data.payload.type, data.payload.payload) IN
         IF p.outcome # "ok" THEN p
         ELSE Decoded(TypedEvent(data.type, data.payload.type, p.value))

\* The reader of SubscribeEvents on one data line: the line is decoded as an
\* Event[any] (a failure skips the line); then the tag selects the typed event,
\* which is decoded again and sent on the channel.
ReadFrame(data) ==
    LET event == EventUnmarshalJSON(data) IN
    IF event.outcome = "panic" THEN [outcome |-> "panic", events |-> <<>>]
    ELSE IF event.outcome = "error" THEN [outcome |-> "skipped", events |-> <<>>]
    ELSE IF data.payload.type \notin PayloadTypes
    THEN [outcome |-> "skipped", events |-> <<>>]
    ELSE [outcome |-> "sent", events |-> <<EventUnmarshalJSON(data).value>>]

\* The events the model sends: every tag, with and without the optional fields.
PayloadPool(tag) ==
    CASE tag = PayloadTypeLSPEvent ->
            {LSPEvent("state_changed", "gopls", "ready", e, c) : e \in {"", "boom"}, c \in {0, 2}}
      [] tag = PayloadTypeMCPEvent ->
            {MCPEvent("state_changed", "mcp", "connected", e, c) : e \in {"", "boom"}, c \in {0, 2}}
      [] tag = PayloadTypePermissionRequest ->
            {PermissionRequest("p1", "t1", t, "{}") : t \in {BashToolName} \cup GateOnlyTools}
      [] tag = PayloadTypePermissionNotification ->
            {PermissionNotification("t1", g, ~g) : g \in BOOLEAN}
      [] tag = PayloadTypeMessage ->
            {ProtoMessage("m1", "assistant", ps) :
                ps \in {<<>>, <<TextContent("hi")>>, <<ImageURLContent("u", "")>>}}
      [] tag = PayloadTypeSession -> {Session("s1", t, 2) : t \in {"", "title"}}
      [] tag = PayloadTypeFile -> {File("f1", "a.go", v) : v \in {0, 1}}
      [] tag = PayloadTypeAgentEvent ->
            {AgentEvent(t, ProtoMessage("m1", "assistant", <<TextContent("hi")>>), e, "", "", d) :
                t \in {"error", "response"}, e \in {"", "boom"}, d \in BOOLEAN}

EventPool ==
    UNION {{TypedEvent(type, tag, p) : type \in {CreatedEvent, UpdatedEvent, DeletedEvent},
                                       p \in PayloadPool(tag)} : tag \in PayloadTypes}

InitEnvelope ==
    /\ evIn \in EventPool
    /\ evPc = "input"
    /\ evWire = <<>>
    /\ evOut = NoDecode

\* handleGetInstanceEvents: json.Marshal(ev) makes the data of the frame.
EncodeEvent ==
    /\ evPc = "input"
    /\ evWire' = EventMarshalJSON(evIn)
    /\ evPc' = "encoded"
    /\ UNCHANGED <<evIn, evOut>>
    /\ UNCHANGED notEnvelope

\* The client's reader gets the frame.
DecodeEvent ==
    /\ evPc = "encoded"
    /\ evOut' = ReadFrame(evWire)
    /\ evPc' = "decoded"
    /\ UNCHANGED <<evIn, evWire>>
    /\ UNCHANGED notEnvelope

NextEnvelope ==
    \/ EncodeEvent
    \/ DecodeEvent

InitSpecEnvelope == InitNotEnvelopeIdle /\ InitEnvelope

SpecEnvelope == InitSpecEnvelope /\ [][NextEnvelope]_vars

\* C11: an event encoded by the server and decoded by the client's reader yields
\* exactly one typed event, of the variant the tag names, with the same event type
\* and the same payload fields.
EnvelopeRoundTrip ==
    evPc = "decoded" => (evOut.outcome = "sent" /\ evOut.events = <<evIn>>)

(***************************************************************************)
(* The server's life cycle: the server command (cmd/server.go), NewServer,  *)
(* Shutdown and Close (server.go), and the handlers that start long-lived   *)
(* tasks (server/proto.go).                                                 *)
(***************************************************************************)
MaxConns == 2

\* The server command has returned: the process ends.
Exited == {"exit_closed", "exit_drained", "exit_timeout", "exit_error"}
Alive == srvPc \notin Exited

\* The context a task runs on is done.  handlePostInstances and
\* handlePostInstanceAgent pass c.ctx; the turn's own cancel function is the one
\* Cancel(session) calls.
CtxDone(t) ==
    IF t = "turn" THEN rootCtxDone \/ turnCtxDone
    ELSE rootCtxDone

\* NewServer: s.ctx = context.Background().
InitServer == InitServerIdle

\* handlePostInstances: db.Connect(c.ctx, ...) and app.New(c.ctx, ...).
PostInstances ==
    /\ Alive /\ listening
    /\ tasks["app"] = "none"
    /\ tasks' = [tasks EXCEPT !["app"] = "running", !["db"] = "running"]
    /\ UNCHANGED <<srvPc, listening, rootCtxDone, reqCtxDone, turnCtxDone, conns,
                   ctrlShutdown, closeCalled, openAtExit>>
    /\ UNCHANGED notServer

\* handlePostInstanceAgent: CoderAgent.Run(c.ctx, ...) starts the turn and the
\* handler returns.
PostInstanceAgent ==
    /\ Alive /\ listening
    /\ tasks["app"] = "running"
    /\ tasks["turn"] = "none"
    /\ tasks' = [tasks EXCEPT !["turn"] = "running"]
    /\ UNCHANGED <<srvPc, listening, rootCtxDone, reqCtxDone, turnCtxDone, conns,
                   ctrlShutdown, closeCalled, openAtExit>>
    /\ UNCHANGED notServer

\* The context of the request that submitted the prompt is canceled: the client
\* went away, or the handler returned.
RequestCtxCancel ==
    /\ Alive
    /\ tasks["turn"] # "none"
    /\ ~reqCtxDone
    /\ reqCtxDone' = TRUE
    /\ UNCHANGED <<srvPc, listening, rootCtxDone, turnCtxDone, tasks, conns,
                   ctrlShutdown, closeCalled, openAtExit>>
    /\ UNCHANGED notServer

\* handlePostInstanceAgentSessionCancel: CoderAgent.Cancel(sid).
PostInstanceAgentSessionCancel ==
    /\ Alive /\ listening
    /\ tasks["turn"] = "running"
    /\ ~turnCtxDone
    /\ turnCtxDone' = TRUE
    /\ UNCHANGED <<srvPc, listening, rootCtxDone, reqCtxDone, tasks, conns,
                   ctrlShutdown, closeCalled, openAtExit>>
    /\ UNCHANGED notServer

\* A task whose context is done observes the cancellation.
ObserveCancel ==
    /\ Alive
    /\ \E t \in TaskKinds :
        /\ tasks[t] = "running"
        /\ CtxDone(t)
        /\ tasks' = [tasks EXCEPT ![t] = "canceled"]
    /\ UNCHANGED <<srvPc, listening, rootCtxDone, reqCtxDone, turnCtxDone, conns,
                   ctrlShutdown, closeCalled, openAtExit>>
    /\ UNCHANGED notServer

\* The turn ends by itself.
TurnFinish ==
    /\ Alive
    /\ tasks["turn"] = "running"
    /\ tasks' = [tasks EXCEPT !["turn"] = "finished"]
    /\ UNCHANGED <<srvPc, listening, rootCtxDone, reqCtxDone, turnCtxDone, conns,
                   ctrlShutdown, closeCalled, openAtExit>>
    /\ UNCHANGED notServer

\* handleGetInstanceEvents starts: an event stream is open until its client leaves.
StreamOpen ==
    /\ Alive /\ listening
    /\ tasks["app"] = "running"
    /\ conns < MaxConns
    /\ conns' = conns + 1
    /\ UNCHANGED <<srvPc, listening, rootCtxDone, reqCtxDone, turnCtxDone, tasks,
                   ctrlShutdown, closeCalled, openAtExit>>
    /\ UNCHANGED notServer

\* handleGetInstanceEvents returns on <-r.Context().Done(): the client left.
StreamClientLeaves ==
    /\ Alive
    /\ conns > 0
    /\ conns' = conns - 1
    /\ UNCHANGED <<srvPc, listening, rootCtxDone, reqCtxDone, turnCtxDone, tasks,
                   ctrlShutdown, closeCalled, openAtExit>>
    /\ UNCHANGED notServer

\* handlePostControl, command shutdown: a goroutine calls
\* c.Shutdown(context.Background()), which closes the listeners and waits.
PostControl ==
    /\ Alive /\ listening
    /\ ctrlShutdown = "none"
    /\ ctrlShutdown' = "waiting"
    /\ listening' = FALSE
    /\ UNCHANGED <<srvPc, rootCtxDone, reqCtxDone, turnCtxDone, tasks, conns,
                   closeCalled, openAtExit>>
    /\ UNCHANGED notServer

\* Shutdown(context.Background()) returns once no connection is open.
ControlShutdownReturn ==
    /\ Alive
    /\ ctrlShutdown = "waiting"
    /\ conns = 0
    /\ ctrlShutdown' = "returned"
    /\ UNCHANGED <<srvPc, listening, rootCtxDone, reqCtxDone, turnCtxDone, tasks, conns,
                   closeCalled, openAtExit>>
    /\ UNCHANGED notServer

\* The server command: ListenAndServe returned ErrServerClosed, the command returns nil.
ServeReturns ==
    /\ srvPc = "serving"
    /\ ~listening
    /\ srvPc' = "exit_closed"
    /\ openAtExit' = conns
    /\ UNCHANGED <<listening, rootCtxDone, reqCtxDone, turnCtxDone, tasks, conns,
                   ctrlShutdown, closeCalled>>
    /\ UNCHANGED notServer

\* The server command: ListenAndServe returned another error, srv.Close() is called.
ServeError ==
    /\ srvPc = "serving"
    /\ listening
    /\ srvPc' = "exit_error"
    /\ closeCalled' = TRUE
    /\ listening' = FALSE
    /\ conns' = 0
    /\ openAtExit' = conns
    /\ UNCHANGED <<rootCtxDone, reqCtxDone, turnCtxDone, tasks, ctrlShutdown>>
    /\ UNCHANGED notServer

\* The server command: a signal arrives; srv.Shutdown(ctx) is called with the
\* timeout and closes the listeners.
Signal ==
    /\ srvPc = "serving"
    /\ srvPc' = "shutdown"
    /\ listening' = FALSE
    /\ UNCHANGED <<rootCtxDone, reqCtxDone, turnCtxDone, tasks, conns, ctrlShutdown,
                   closeCalled, openAtExit>>
    /\ UNCHANGED notServer

\* srv.Shutdown(ctx) returns nil: no connection is open.
ShutdownDrained ==
    /\ srvPc = "shutdown"
    /\ conns = 0
    /\ srvPc' = "exit_drained"
    /\ openAtExit' = conns
    /\ UNCHANGED <<listening, rootCtxDone, reqCtxDone, turnCtxDone, tasks, conns,
                   ctrlShutdown, closeCalled>>
    /\ UNCHANGED notServer

\* srv.Shutdown(ctx) returns the context's error: the timeout passed with a
\* connection open.  The command logs and returns the error.
ShutdownTimeout ==
    /\ srvPc = "shutdown"
    /\ conns > 0
    /\ srvPc' = "exit_timeout"
    /\ openAtExit' = conns
    /\ UNCHANGED <<listening, rootCtxDone, reqCtxDone, turnCtxDone, tasks, conns,
                   ctrlShutdown, closeCalled>>
    /\ UNCHANGED notServer

NextServer ==
    \/ PostInstances
    \/ PostInstanceAgent
    \/ RequestCtxCancel
    \/ PostInstanceAgentSessionCancel
    \/ ObserveCancel
    \/ TurnFinish
    \/ StreamOpen
    \/ StreamClientLeaves
    \/ PostControl
    \/ ControlShutdownReturn
    \/ ServeReturns
    \/ ServeError
    \/ Signal
    \/ ShutdownDrained
    \/ ShutdownTimeout

InitSpecServer == InitNotServerIdle /\ InitServer

\* a task whose context is done gets to see it
SpecServer == InitSpecServer /\ [][NextServer]_vars /\ WF_vars(ObserveCancel)

\* C12: once the context of the request that submitted the prompt is canceled,
\* the turn that request started does not go on running.
RequestCancelCancelsTurn ==
    (reqCtxDone /\ tasks["turn"] = "running" /\ Alive) ~> (tasks["turn"] # "running" \/ ~Alive)

\* A shutdown of the server has returned.
ShutdownReturned ==
    \/ ctrlShutdown = "returned"
    \/ srvPc \in {"exit_drained", "exit_timeout"}

\* C13: when a shutdown of the server has returned, the root context is canceled,
\* and with it the context of every long-lived task.
ShutdownCancelsRootContext ==
    ShutdownReturned => (rootCtxDone /\ \A t \in TaskKinds : tasks[t] = "running" => CtxDone(t))

\* C14: when the server command has returned after a shutdown, the connections
\* were drained or Close was called.
ShutdownDrainsOrForcesClose ==
    srvPc \in Exited => (openAtExit = 0 \/ closeCalled)

(***************************************************************************)
(* The retries of a provider call (openai.go: send, stream, shouldRetry).   *)
(***************************************************************************)
MaxAttempts == 6

CtxErrors == {"context.Canceled", "context.DeadlineExceeded"}

\* The errors of a provider request: a context error, a network failure, or an
\* *openai.Error with its status, its type and its Retry-After header (seconds).
CallError(kind, status, type, retryAfter) ==
    [kind |-> kind, StatusCode |-> status, Type |-> type, RetryAfter |-> retryAfter]
APIError(status, type, retryAfter) == CallError("api", status, type, retryAfter)
StatusUnauthorized == 401
StatusTooManyRequests == 429
StatusInternalServerError == 500
StatusBadRequest == 400
StatusServiceUnavailable == 503

ErrorPool ==
    {CallError(k, 0, "", <<>>) : k \in CtxErrors \cup {"network"}}
    \cup {APIError(s, "", <<>>) : s \in {StatusUnauthorized, StatusTooManyRequests,
                                         StatusInternalServerError, StatusBadRequest,
                                         StatusServiceUnavailable}}
    \cup {APIError(StatusTooManyRequests, "insufficient_quota", <<>>),
          APIError(StatusTooManyRequests, "", <<1>>),
          APIError(StatusInternalServerError, "", <<30>>)}

\* What config.Get().Resolve gives for the configured key.
Resolved(key, ok) == [key |-> key, ok |-> ok]
Resolutions == {Resolved("k1", TRUE), Resolved("k2", TRUE), Resolved("", FALSE)}

RetryDecision(retry, after, err, key) ==
    [retry |-> retry, after |-> after, err |-> err, apiKey |-> key]

\* 2^n
RECURSIVE Pow2(_)
Pow2(n) == IF n = 0 THEN 1 ELSE 2 * Pow2(n - 1)

\* The wait with the Retry-After value taken as milliseconds.
retryDelayHeaderAsMilliseconds(n, err) ==
    LET backoffMs == 2000 * Pow2(n - 1)
        jitterMs == (backoffMs * 2) \div 10
    IN IF err.RetryAfter # <<>> THEN err.RetryAfter[1] ELSE backoffMs + jitterMs

\* The wait before the next attempt, in milliseconds: backoffMs + jitterMs, or
\* the whole number Sscanf reads from the first Retry-After value, times 1000.
retryDelay(n, err) ==
    LET backoffMs == 2000 * Pow2(n - 1)
        jitterMs == (backoffMs * 2) \div 10
    IN IF err.RetryAfter # <<>> THEN err.RetryAfter[1] * 1000 ELSE backoffMs + jitterMs

\* shouldRetry without the test for context errors.
shouldRetryContextErrors(n, err, prev, resolved) ==
    IF n > maxRetries
    THEN RetryDecision(FALSE, 0, "maximum retry attempts reached", prev)
    ELSE IF err.kind = "api" /\ err.StatusCode = StatusUnauthorized
    THEN IF ~resolved.ok
         THEN RetryDecision(FALSE, 0, "failed to resolve API key", resolved.key)
         ELSE IF prev = resolved.key
         THEN RetryDecision(FALSE, 0, NilError, resolved.key)
         ELSE RetryDecision(TRUE, 0, NilError, resolved.key)
    ELSE IF err.kind = "api" /\ err.StatusCode = StatusTooManyRequests
            /\ err.Type = "insufficient_quota"
    THEN RetryDecision(FALSE, 0, "OpenAI quota exceeded", prev)
    ELSE IF err.kind = "api"
            /\ err.StatusCode \notin {StatusTooManyRequests, StatusInternalServerError}
    THEN RetryDecision(FALSE, 0, err.kind, prev)
    ELSE RetryDecision(TRUE, retryDelay(n, err), NilError, prev)

\* shouldRetry(attempts, err): whether to retry, after how many milliseconds, and
\* the error to return; the key is resolved again on a 401.  In the 401 branch err
\* is assigned the result of Resolve, so the error returned for an unchanged key is nil.
shouldRetry(n, err, prev, resolved) ==
    IF n > maxRetries
    THEN RetryDecision(FALSE, 0, "maximum retry attempts reached", prev)
    ELSE IF err.kind \in CtxErrors
    THEN RetryDecision(FALSE, 0, err.kind, prev)
    ELSE IF err.kind = "api" /\ err.StatusCode = StatusUnauthorized
    THEN IF ~resolved.ok
         THEN RetryDecision(FALSE, 0, "failed to resolve API key", resolved.key)
         ELSE IF prev = resolved.key
         THEN RetryDecision(FALSE, 0, NilError, resolved.key)
         ELSE RetryDecision(TRUE, 0, NilError, resolved.key)
    ELSE IF err.kind = "api" /\ err.StatusCode = StatusTooManyRequests
            /\ err.Type = "insufficient_quota"
    THEN RetryDecision(FALSE, 0, "OpenAI quota exceeded", prev)
    ELSE IF err.kind = "api"
            /\ err.StatusCode \notin {StatusTooManyRequests, StatusInternalServerError}
    THEN RetryDecision(FALSE, 0, err.kind, prev)
    ELSE RetryDecision(TRUE, retryDelay(n, err), NilError, prev)

MaxChunks == 2

InitRetry ==
    /\ rtMode \in {"send", "stream"}
    /\ rtPc = "calling"
    /\ attempts = 0
    /\ apiKey = "k1"
    /\ rtCtxDone = FALSE
    /\ rtCalls = <<>>
    /\ sendReturn = NoReturn
    /\ streamEvents = <<>>
    /\ rtChunks = 0
    /\ streamClosed = FALSE
    /\ rtReader = "reading"

StreamEvent(type, e) == [Type |-> type, Error |-> e]

\* The consumer after the event it received: it reads on after a delta unless
\* the context is done, and stops after a complete or an error event.
ReaderAfter(ev) == IF StopsReading(ev) \/ rtCtxDone THEN "stopped" ELSE "reading"

\* eventChan <- ev.  eventChan is make(chan ProviderEvent), without a buffer, and
\* no send on it is in a select: the send goes through only while the consumer
\* is at its receive, and the goroutine stays at the send for as long as it is
\* not.
SendEvent(ev) ==
    /\ rtReader = "reading"
    /\ streamEvents' = Append(streamEvents, ev)
    /\ rtReader' = ReaderAfter(ev)

\* send: return nil, err.  stream: eventChan <- ProviderEvent{Type: EventError,
\* Error: err}, then close(eventChan).
Surface(e) ==
    /\ rtPc' = "done"
    /\ IF rtMode = "send"
       THEN /\ sendReturn' = [returned |-> TRUE, response |-> FALSE, err |-> e]
            /\ UNCHANGED <<streamEvents, streamClosed, rtReader>>
       ELSE /\ SendEvent(StreamEvent(EventError, e))
            /\ streamClosed' = TRUE
            /\ UNCHANGED sendReturn

\* The event after case <-ctx.Done() of the backoff: ctx.Err() is not nil once
\* Done is closed, so the error event is sent.
ctxDoneEvent == StreamEvent(EventError, "context.Canceled")

\* stream: a chunk of the current attempt, sent on as a content_delta event.
AttemptChunk ==
    /\ rtMode = "stream"
    /\ rtPc = "calling"
    /\ attempts < MaxAttempts
    /\ rtChunks < MaxChunks
    /\ rtChunks' = rtChunks + 1
    /\ SendEvent(StreamEvent(EventContentDelta, NilError))
    /\ UNCHANGED <<rtMode, rtPc, attempts, apiKey, rtCtxDone, rtCalls, sendReturn, streamClosed>>
    /\ UNCHANGED notRetry

\* One pass of the loop of send or stream whose provider request succeeds with a
\* choice in its response.
AttemptSucceeds ==
    /\ rtPc = "calling"
    /\ attempts < MaxAttempts
    /\ ~rtCtxDone
    /\ rtMode = "stream" => rtChunks > 0
    /\ attempts' = attempts + 1
    /\ rtPc' = "done"
    /\ IF rtMode = "send"
       THEN /\ sendReturn' = [returned |-> TRUE, response |-> TRUE, err |-> NilError]
            /\ UNCHANGED <<streamEvents, streamClosed, rtReader>>
       ELSE /\ SendEvent(StreamEvent(EventComplete, NilError))
            /\ streamClosed' = TRUE
            /\ UNCHANGED sendReturn
    /\ UNCHANGED <<rtMode, apiKey, rtCtxDone, rtCalls, rtChunks>>
    /\ UNCHANGED notRetry

\* One pass whose provider request succeeds with no choice in its response:
\* send returns an error; stream sends an error event and returns.
AttemptEmpty ==
    /\ rtPc = "calling"
    /\ attempts < MaxAttempts
    /\ ~rtCtxDone
    /\ rtChunks = 0
    /\ attempts' = attempts + 1
    /\ rtPc' = "done"
    /\ IF rtMode = "send"
       THEN /\ sendReturn' = [returned |-> TRUE, response |-> FALSE,
                              err |-> "received empty response"]
            /\ UNCHANGED <<streamEvents, rtReader>>
       ELSE /\ SendEvent(StreamEvent(EventError, "received empty streaming response"))
            /\ UNCHANGED sendReturn
    /\ UNCHANGED <<rtMode, apiKey, rtCtxDone, rtCalls, rtChunks, streamClosed>>
    /\ UNCHANGED notRetry

\* One pass of the loop of send or stream whose provider request fails.  A pass
\* of stream that ends in the send of an error event is taken when the send goes
\* through; until then the goroutine is at the send, with nothing changed.
AttemptFails ==
    /\ rtPc = "calling"
    /\ attempts < MaxAttempts
    /\ \E err \in ErrorPool, resolved \in Resolutions :
        /\ rtCtxDone => err.kind \in CtxErrors
        /\ err.StatusCode # StatusUnauthorized => resolved = Resolved("k1", TRUE)
        /\ LET n == attempts + 1
               r == shouldRetry(n, err, apiKey, resolved)
           IN /\ attempts' = n
              /\ apiKey' = r.apiKey
              /\ rtCtxDone' = (rtCtxDone \/ err.kind \in CtxErrors)
              /\ rtCalls' = Append(rtCalls, [err |-> err, prev |-> apiKey,
                                             resolved |-> resolved,
                                             retried |-> (r.err = NilError /\ r.retry),
                                             after |-> r.after])
              /\ IF r.err # NilError THEN Surface(r.err)
                 ELSE IF r.retry
                 THEN /\ rtPc' = "waiting"
                      /\ UNCHANGED <<sendReturn, streamEvents, streamClosed, rtReader>>
                 ELSE Surface(r.err)
    /\ rtChunks' = 0
    /\ UNCHANGED rtMode
    /\ UNCHANGED notRetry

\* The backoff passes: case <-time.After(...): continue.
RetryTimer ==
    /\ rtPc = "waiting"
    /\ rtPc' = "calling"
    /\ UNCHANGED <<rtMode, attempts, apiKey, rtCtxDone, rtCalls, sendReturn, streamEvents,
                   rtChunks, streamClosed, rtReader>>
    /\ UNCHANGED notRetry

\* The backoff is interrupted: case <-ctx.Done().
RetryCtxDone ==
    /\ rtPc = "waiting"
    /\ rtCtxDone
    /\ IF rtMode = "send"
       THEN Surface("context.Canceled")
       ELSE /\ rtPc' = "done"
            /\ SendEvent(ctxDoneEvent)
            /\ streamClosed' = TRUE
            /\ UNCHANGED sendReturn
    /\ UNCHANGED <<rtMode, attempts, apiKey, rtCtxDone, rtCalls, rtChunks>>
    /\ UNCHANGED notRetry

\* The caller cancels the context of the call.
RetryCtxCancel ==
    /\ rtPc # "done"
    /\ ~rtCtxDone
    /\ rtCtxDone' = TRUE
    /\ UNCHANGED <<rtMode, rtPc, attempts, apiKey, rtCalls, sendReturn, streamEvents,
                   rtChunks, streamClosed, rtReader>>
    /\ UNCHANGED notRetry

NextRetry ==
    \/ AttemptChunk
    \/ AttemptSucceeds
    \/ AttemptEmpty
    \/ AttemptFails
    \/ RetryTimer
    \/ RetryCtxDone
    \/ RetryCtxCancel

InitSpecRetry == InitNotRetryIdle /\ InitRetry

SpecRetry == InitSpecRetry /\ [][NextRetry]_vars

\* The steps of the call itself: the provider request gives a chunk or returns,
\* the backoff ends, and a send goes through while the consumer is receiving.
CallStep ==
    \/ AttemptChunk
    \/ AttemptSucceeds
    \/ AttemptEmpty
    \/ AttemptFails
    \/ RetryTimer
    \/ RetryCtxDone

\* The call runs on whenever it can take a step.  Nothing makes the caller
\* cancel, and nothing makes a consumer that stopped reading receive again.
SpecRetryLive == SpecRetry /\ WF_vars(CallStep)

\* The call ended and gave its caller a failure with an error in it.
SurfacedError ==
    /\ rtPc = "done"
    /\ IF rtMode = "send"
       THEN sendReturn.returned /\ ~sendReturn.response /\ sendReturn.err # NilError
       ELSE /\ streamEvents # <<>>
            /\ Last(streamEvents).Type = EventError
            /\ Last(streamEvents).Error # NilError

\* C15: a provider request that failed with context.Canceled or
\* context.DeadlineExceeded is the last one of the call, and the call ends with an
\* error (from send) or an error event (from stream).
ContextErrorNeverRetried ==
    \A i \in 1..Len(rtCalls) :
        rtCalls[i].err.kind \in CtxErrors => (i = Len(rtCalls) /\ SurfacedError)

WitnessContextErrorAfterRetry ==
    /\ Len(rtCalls) = 2
    /\ rtCalls[1].retried
    /\ rtCalls[2].err.kind = "context.Canceled"
    /\ rtMode = "stream"
    /\ SurfacedError

\* C16: a call makes at most maxRetries retries, and a call that ends after a
\* failed request ends with an error.
RetriesBoundedThenError ==
    /\ attempts <= maxRetries + 1
    /\ (rtPc = "done" /\ rtCalls # <<>> /\ Len(rtCalls) = attempts) => SurfacedError

\* C17: a 401 whose key resolves to the same key is not retried and ends the call
\* with a non-nil error.
UnchangedKeySurfacesError ==
    \A i \in 1..Len(rtCalls) :
        (/\ rtCalls[i].err.StatusCode = StatusUnauthorized
         /\ rtCalls[i].resolved.ok
         /\ rtCalls[i].resolved.key = rtCalls[i].prev)
        => (i = Len(rtCalls) /\ SurfacedError)

\* A network failure, a 5xx status or a 429.
Retryable(err) ==
    \/ err.kind = "network"
    \/ err.kind = "api" /\ err.StatusCode = StatusTooManyRequests
    \/ err.kind = "api" /\ err.StatusCode >= 500 /\ err.StatusCode <= 599

\* C18: a network failure, a 5xx or a 429 within the attempt limit is retried.
TransportFailuresRetried ==
    \A i \in 1..Len(rtCalls) :
        (Retryable(rtCalls[i].err) /\ i <= maxRetries) => rtCalls[i].retried

(***************************************************************************)
(* The message service (message/message.go) and AddFinish (proto/message.go).*)
(***************************************************************************)
MaxMessages == 2
MaxMsgOps == 3

Assistant == "assistant"
User == "user"
System == "system"
Tool == "tool"

FinishReasonEndTurn == "end_turn"
FinishReasonCanceled == "canceled"

MessageIDs == <<"m1", "m2", "m3">>

IsFinishPart(p) == p.kind = "Finish"
FinishParts(ps) == SelectSeq(ps, IsFinishPart)

\* slices.Delete(parts, i, i+1) for the first Finish part, if there is one.
RECURSIVE DeleteFirstFinish(_)
DeleteFirstFinish(ps) ==
    IF ps = <<>> THEN <<>>
    ELSE IF IsFinishPart(Head(ps)) THEN Tail(ps)
    ELSE <<Head(ps)>> \o DeleteFirstFinish(Tail(ps))

\* Message.AddFinish: the existing finish part is removed, the new one appended.
AddFinish(m, reason, time, message, details) ==
    [m EXCEPT !.Parts = Append(DeleteFirstFinish(m.Parts),
                               Finish(reason, time, message, details))]

\* The parameters of Create: any role with any parts, as Create takes them
\* (message.go:78): content for a user or an assistant message, tool results
\* for a tool message, and parts that already hold a Finish.
CreateMessageParams(role, ps) == [Role |-> role, Parts |-> ps]
CreateParamsPool ==
    {CreateMessageParams(Assistant, ps) :
        ps \in {<<>>, <<TextContent("hi")>>,
                <<TextContent("hi"), Finish(FinishReasonEndTurn, 1, "", "")>>}}
    \cup {CreateMessageParams(User, ps) :
        ps \in {<<TextContent("hi")>>,
                <<TextContent("hi"), Finish(FinishReasonEndTurn, 1, "", "")>>}}
    \cup {CreateMessageParams(Tool, ps) :
            ps \in {<<ToolResult("t1", "bash", "out", "", FALSE)>>,
                    <<ToolResult("t1", "bash", "out", "", FALSE),
                      ToolResult("t2", "bash", "no", "", TRUE)>>}}

\* The parts Create stores: a Finish with reason stop is appended unless the role is
\* assistant.
CreateParts(params) ==
    IF params.Role # Assistant
    THEN Append(params.Parts, Finish("stop", 0, "", ""))
    ELSE params.Parts

\* service.fromDBItem: the row's parts decoded.
fromDBItem(item) ==
    LET ps == UnmarshallParts(item.Parts) IN
    IF ps.ok THEN [ok |-> TRUE, message |-> ProtoMessage(item.ID, item.Role, ps.parts)]
    ELSE NoRead

InitMessage == InitMessageIdle

\* The sessions whose messages are stored.
MessageSessions == {SessionID, OtherSessionID}

\* The rows a statement with WHERE id = ? selects, and the others.
RowsOf(id) == SelectSeq(dbMessages, LAMBDA item : item.ID = id)
RowsBut(id) == SelectSeq(dbMessages, LAMBDA item : item.ID # id)

\* service.Create: the row is inserted and the message read back from it.  Every
\* message gets an id of its own (uuid.New).
ServiceCreate ==
    /\ Len(heldMessages) < MaxMessages
    /\ msgOps < MaxMsgOps
    /\ \E sessionID \in MessageSessions, params \in CreateParamsPool :
        LET item == [ID |-> MessageIDs[Len(heldMessages) + 1], SessionID |-> sessionID,
                     Role |-> params.Role,
                     Parts |-> MarshallParts(CreateParts(params))]
            made == fromDBItem(item)
        IN /\ dbMessages' = Append(dbMessages, item)
           /\ heldMessages' = Append(heldMessages, made.message)
           /\ lastMsgOp' = [op |-> "Create", index |-> Len(heldMessages) + 1, reason |-> ""]
    /\ msgOps' = msgOps + 1
    /\ UNCHANGED <<delPc, delTodo>>
    /\ UNCHANGED notMessage

\* service.Delete: Get reads the row of the id, which fails when there is none;
\* DeleteMessage removes it.  The holders of the message keep what they hold.
ServiceDelete ==
    /\ msgOps < MaxMsgOps
    /\ \E i \in 1..Len(heldMessages) :
        /\ dbMessages' = IF RowsOf(heldMessages[i].ID) # <<>>
                            /\ fromDBItem(RowsOf(heldMessages[i].ID)[1]).ok
                         THEN RowsBut(heldMessages[i].ID)
                         ELSE dbMessages
        /\ lastMsgOp' = [op |-> "Delete", index |-> i, reason |-> ""]
    /\ msgOps' = msgOps + 1
    /\ UNCHANGED heldMessages
    /\ UNCHANGED <<delPc, delTodo>>
    /\ UNCHANGED notMessage

\* service.DeleteSessionMessages, its call of List: the rows of the session are
\* read and decoded; an error of fromDBItem is returned before anything is
\* deleted.
DeleteSessionMessagesList ==
    /\ delPc = "idle"
    /\ msgOps < MaxMsgOps
    /\ \E sessionID \in MessageSessions :
        LET listed == SelectSeq(dbMessages, LAMBDA item : item.SessionID = sessionID) IN
        IF \A k \in 1..Len(listed) : fromDBItem(listed[k]).ok
        THEN /\ delTodo' = [k \in 1..Len(listed) |-> listed[k].ID]
             /\ delPc' = "deleting"
        ELSE UNCHANGED <<delPc, delTodo>>
    /\ lastMsgOp' = [op |-> "DeleteSessionMessages", index |-> 0, reason |-> ""]
    /\ msgOps' = msgOps + 1
    /\ UNCHANGED <<dbMessages, heldMessages>>
    /\ UNCHANGED notMessage

\* service.DeleteSessionMessages, one pass of its loop: s.Delete(ctx, message.ID).
\* Get fails when the row is gone or cannot be decoded, and the error is returned.
DeleteSessionMessagesDelete ==
    /\ delPc = "deleting"
    /\ delTodo # <<>>
    /\ IF RowsOf(Head(delTodo)) # <<>> /\ fromDBItem(RowsOf(Head(delTodo))[1]).ok
       THEN /\ dbMessages' = RowsBut(Head(delTodo))
            /\ delTodo' = Tail(delTodo)
            /\ UNCHANGED delPc
       ELSE /\ delPc' = "idle"
            /\ delTodo' = <<>>
            /\ UNCHANGED dbMessages
    /\ UNCHANGED <<heldMessages, lastMsgOp, msgOps>>
    /\ UNCHANGED notMessage

\* service.DeleteSessionMessages returns: after the loop, or from the loop with
\* the error of a Delete (the context canceled, the database failing).
DeleteSessionMessagesReturn ==
    /\ delPc = "deleting"
    /\ delPc' = "idle"
    /\ delTodo' = <<>>
    /\ UNCHANGED <<dbMessages, heldMessages, lastMsgOp, msgOps>>
    /\ UNCHANGED notMessage

\* ---- the methods of Message that change its parts (proto/message.go)
IsReasoningPart(p) == p.kind = "ReasoningContent"
HasPart(ps, Test(_)) == \E i \in 1..Len(ps) : Test(ps[i])
FirstPart(ps, Test(_)) ==
    CHOOSE i \in 1..Len(ps) : Test(ps[i]) /\ \A k \in 1..(i - 1) : ~Test(ps[k])

\* Message.AppendContent: every text part gets the delta; without one a text part
\* is appended.
AppendContent(m, delta) ==
    IF HasPart(m.Parts, IsTextPart)
    THEN [m EXCEPT !.Parts = [i \in 1..Len(m.Parts) |->
                                IF IsTextPart(m.Parts[i])
                                THEN TextContent(m.Parts[i].Text \o delta)
                                ELSE m.Parts[i]]]
    ELSE [m EXCEPT !.Parts = Append(m.Parts, TextContent(delta))]

\* Message.AppendReasoningContent: every reasoning part gets the delta; without
\* one a reasoning part that starts now is appended.
AppendReasoningContent(m, delta, now) ==
    IF HasPart(m.Parts, IsReasoningPart)
    THEN [m EXCEPT !.Parts = [i \in 1..Len(m.Parts) |->
                                IF IsReasoningPart(m.Parts[i])
                                THEN [m.Parts[i] EXCEPT !.Thinking = @ \o delta]
                                ELSE m.Parts[i]]]
    ELSE [m EXCEPT !.Parts = Append(m.Parts, ReasoningContent(delta, "", now, 0))]

\* Message.AppendReasoningSignature: the first reasoning part gets the signature;
\* without one a reasoning part with the signature alone is appended.
AppendReasoningSignature(m, signature) ==
    IF HasPart(m.Parts, IsReasoningPart)
    THEN [m EXCEPT !.Parts[FirstPart(m.Parts, IsReasoningPart)].Signature = @ \o signature]
    ELSE [m EXCEPT !.Parts = Append(m.Parts, ReasoningContent("", signature, 0, 0))]

\* Message.FinishThinking: the first reasoning part is finished now unless it is
\* finished already.
FinishThinking(m, now) ==
    IF HasPart(m.Parts, IsReasoningPart)
    THEN [m EXCEPT !.Parts[FirstPart(m.Parts, IsReasoningPart)].FinishedAt =
                        IF @ = 0 THEN now ELSE @]
    ELSE m

\* Message.FinishToolCall: the first tool call of the id is finished.
FinishToolCall(m, toolCallID) ==
    LET IsCall(p) == IsToolCallPart(p) /\ p.ID = toolCallID IN
    IF HasPart(m.Parts, IsCall)
    THEN [m EXCEPT !.Parts[FirstPart(m.Parts, IsCall)].Finished = TRUE]
    ELSE m

\* Message.AppendToolCallInput: the first tool call of the id gets the delta.
AppendToolCallInput(m, toolCallID, inputDelta) ==
    LET IsCall(p) == IsToolCallPart(p) /\ p.ID = toolCallID IN
    IF HasPart(m.Parts, IsCall)
    THEN [m EXCEPT !.Parts[FirstPart(m.Parts, IsCall)].Input = @ \o inputDelta]
    ELSE m

\* Message.AddToolCall: the call replaces the first tool call of its id, or is
\* appended.
AddToolCall(m, tc) ==
    LET IsCall(p) == IsToolCallPart(p) /\ p.ID = tc.ID IN
    IF HasPart(m.Parts, IsCall)
    THEN [m EXCEPT !.Parts[FirstPart(m.Parts, IsCall)] = tc]
    ELSE [m EXCEPT !.Parts = Append(m.Parts, tc)]

\* Message.SetToolCalls: the tool calls are removed, the given ones appended.
SetToolCalls(m, tc) ==
    [m EXCEPT !.Parts = SelectSeq(m.Parts, LAMBDA p : ~IsToolCallPart(p)) \o tc]

\* Message.AddToolResult and Message.SetToolResults append.
AddToolResult(m, tr) == [m EXCEPT !.Parts = Append(m.Parts, tr)]
SetToolResults(m, tr) == [m EXCEPT !.Parts = m.Parts \o tr]

\* Message.AddImageURL and Message.AddBinary append.
AddImageURL(m, url, detail) == [m EXCEPT !.Parts = Append(m.Parts, ImageURLContent(url, detail))]
AddBinary(m, mimeType, data) ==
    [m EXCEPT !.Parts = Append(m.Parts, BinaryContent("", mimeType, data))]

\* The calls of these methods the holder of message m makes: the name of the
\* method and the message after it.
HolderCall(name, m) == [name |-> name, message |-> m]
HolderCalls(m) ==
    {HolderCall("AppendContent", AppendContent(m, "hi"))}
    \cup {HolderCall("AppendReasoningContent", AppendReasoningContent(m, "hm", now)) :
            now \in {1, 2}}
    \cup {HolderCall("AppendReasoningSignature", AppendReasoningSignature(m, "sig"))}
    \cup {HolderCall("FinishThinking", FinishThinking(m, now)) : now \in {1, 2}}
    \cup {HolderCall("FinishToolCall", FinishToolCall(m, "t1"))}
    \cup {HolderCall("AppendToolCallInput", AppendToolCallInput(m, "t1", "{}"))}
    \cup {HolderCall("AddToolCall", AddToolCall(m, ToolCall(id, "bash", "", "function", FALSE))) :
            id \in {"t1", "t2"}}
    \cup {HolderCall("SetToolCalls", SetToolCalls(m, tc)) :
            tc \in {<<>>, <<ToolCall("t1", "bash", "{}", "function", TRUE)>>}}
    \cup {HolderCall("AddToolResult", AddToolResult(m, ToolResult("t1", "bash", "out", "", FALSE)))}
    \cup {HolderCall("SetToolResults",
                     SetToolResults(m, <<ToolResult("t1", "bash", "out", "", FALSE),
                                         ToolResult("t2", "bash", "no", "", TRUE)>>))}
    \cup {HolderCall("AddImageURL", AddImageURL(m, "u", "high"))}
    \cup {HolderCall("AddBinary", AddBinary(m, "image/png", <<1, 2>>))}

\* The holder of a message calls one of these methods on it.
MessageChange ==
    /\ msgOps < MaxMsgOps
    /\ \E i \in 1..Len(heldMessages) : \E call \in HolderCalls(heldMessages[i]) :
        /\ heldMessages' = [heldMessages EXCEPT ![i] = call.message]
        /\ lastMsgOp' = [op |-> call.name, index |-> i, reason |-> ""]
    /\ msgOps' = msgOps + 1
    /\ UNCHANGED dbMessages
    /\ UNCHANGED <<delPc, delTodo>>
    /\ UNCHANGED notMessage

\* The holder of a message calls AddFinish on it.
MessageAddFinish ==
    /\ msgOps < MaxMsgOps
    /\ \E i \in 1..Len(heldMessages),
          reason \in {FinishReasonEndTurn, FinishReasonCanceled},
          time \in {1, 2} :
        /\ heldMessages' = [heldMessages EXCEPT
                               ![i] = AddFinish(@, reason, time, "", "")]
        /\ lastMsgOp' = [op |-> "AddFinish", index |-> i, reason |-> reason]
    /\ msgOps' = msgOps + 1
    /\ UNCHANGED dbMessages
    /\ UNCHANGED <<delPc, delTodo>>
    /\ UNCHANGED notMessage

\* service.Update: the parts of the message are stored in the row of its id
\* (UPDATE messages SET parts = ? WHERE id = ?).
ServiceUpdate ==
    /\ msgOps < MaxMsgOps
    /\ \E i \in 1..Len(heldMessages) :
        /\ dbMessages' = [j \in 1..Len(dbMessages) |->
                             IF dbMessages[j].ID = heldMessages[i].ID
                             THEN [dbMessages[j] EXCEPT
                                      !.Parts = MarshallParts(heldMessages[i].Parts)]
                             ELSE dbMessages[j]]
        /\ lastMsgOp' = [op |-> "Update", index |-> i, reason |-> ""]
    /\ msgOps' = msgOps + 1
    /\ UNCHANGED heldMessages
    /\ UNCHANGED <<delPc, delTodo>>
    /\ UNCHANGED notMessage

NextMessage ==
    \/ ServiceCreate
    \/ MessageAddFinish
    \/ ServiceUpdate
    \/ ServiceDelete
    \/ DeleteSessionMessagesList
    \/ DeleteSessionMessagesDelete
    \/ DeleteSessionMessagesReturn
    \/ MessageChange

InitSpecMessage == InitNotMessageIdle /\ InitMessage

SpecMessage == InitSpecMessage /\ [][NextMessage]_vars

\* The parts of a stored row.
StoredParts(item) == fromDBItem(item).message.Parts

\* C19: no message, held or stored, has more than one Finish part, and the message
\* AddFinish was just called on has exactly one, with the reason given.
AtMostOneFinish ==
    /\ \A i \in 1..Len(heldMessages) : Len(FinishParts(heldMessages[i].Parts)) <= 1
    /\ \A i \in 1..Len(dbMessages) : Len(FinishParts(StoredParts(dbMessages[i]))) <= 1
    /\ lastMsgOp.op = "AddFinish" =>
          LET fs == FinishParts(heldMessages[lastMsgOp.index].Parts) IN
          /\ Len(fs) = 1
          /\ fs[1].Reason = lastMsgOp.reason

\* C20: every stored message of role tool has only ToolResult parts.
ToolMessagesHoldOnlyToolResults ==
    \A i \in 1..Len(dbMessages) :
        dbMessages[i].Role = Tool =>
            \A j \in 1..Len(StoredParts(dbMessages[i])) :
                IsToolResultPart(StoredParts(dbMessages[i])[j])

\* An assistant message with text or with a finished tool call.
HasTextOrFinishedCall(m) == Content(m).Text # "" \/ FinishedToolCalls(m) # <<>>
IsAssistantMessage(m) == m.Role = "assistant"
IsAssistantParam(msg) == msg.role = "assistant"
ForwardableAssistant(m) == IsAssistantMessage(m) /\ HasTextOrFinishedCall(m)

\* C21: the request holds no assistant message besides those of the history that
\* have text or a finished tool call.
EmptyAssistantNeverForwarded ==
    requestBuilt =>
        Len(SelectSeq(request, IsAssistantParam))
            <= Len(SelectSeq(history, ForwardableAssistant))

(***************************************************************************)
(* Reading a stored message (message/message.go: Get, fromDBItem).          *)
(***************************************************************************)
MaxStoredParts == 3

\* The wrappers found in a row: those MarshallParts writes, and wrappers with a
\* type tag UnmarshallParts does not know.
KnownWrappers ==
    {MarshallParts(<<p>>)[1] :
        p \in {TextContent("hi"), ToolCall("t1", "bash", "{}", "function", TRUE),
               Finish("end_turn", 9, "", "")}}
UnknownWrappers ==
    {[type |-> t, data |-> ("text" :> "x")] : t \in {"audio", ""}}
StoredWrappers == KnownWrappers \cup UnknownWrappers
StoredRows ==
    {[ID |-> "m1", Role |-> "assistant", Parts |-> ps] :
        ps \in UNION {[1..n -> StoredWrappers] : n \in 0..MaxStoredParts}}

HasUnknownTag(item) ==
    \E i \in 1..Len(item.Parts) : item.Parts[i].type \notin KnownPartTypes

InitRead ==
    /\ rdRow \in StoredRows
    /\ rdPc = "stored"
    /\ rdResult = NoRead

\* service.Get: the row is fetched and decoded by fromDBItem.
ServiceGet ==
    /\ rdPc = "stored"
    /\ rdResult' = fromDBItem(rdRow)
    /\ rdPc' = "read"
    /\ UNCHANGED rdRow
    /\ UNCHANGED notRead

NextRead == ServiceGet

InitSpecRead == InitNotReadIdle /\ InitRead

SpecRead == InitSpecRead /\ [][NextRead]_vars

\* C22: reading a row with an unknown type tag gives an error and no message: no
\* part of the row is returned.
UnknownTagRejectsRow ==
    (rdPc = "read" /\ HasUnknownTag(rdRow)) =>
        (~rdResult.ok /\ rdResult.message = NoMessage)

WitnessUnknownTagAfterKnownPart ==
    /\ rdPc = "read"
    /\ Len(rdRow.Parts) = 3
    /\ rdRow.Parts[1].type = textType
    /\ rdRow.Parts[2].type = "audio"
    /\ rdRow.Parts[3].type = finishType
    /\ ~rdResult.ok

\* C23: with disable_streaming and a failing send, StreamResponse does not call the
\* client's stream, and the channel carries exactly one event, the error of send, and
\* no complete event.
DisableStreamingFallbackError ==
    (disableStreaming /\ ~sendOk /\ provKind \in {"openai", "fake"} /\ agentPc # "idle") =>
        /\ ~streamCalled
        /\ prodPc = "done" =>
              /\ sendCalls = 1
              /\ sent = <<ProviderEvent(EventError, "none")>>

\* complete and error end a stream.
IsTerminal(ev) == ev.Type \in {EventComplete, EventError}

\* No event follows a terminal event, and a stream whose producer has returned
\* ends with one.
OneTerminalLast ==
    /\ \A i \in 1..Len(streamEvents) : IsTerminal(streamEvents[i]) => i = Len(streamEvents)
    /\ rtPc = "done" => (streamEvents # <<>> /\ IsTerminal(Last(streamEvents)))

\* C24: the producer of stream returns on every path, the events it has sent then
\* end with a complete or an error event, and at no time does an event follow a
\* complete or an error event.  The first conjunct holds; the second does not
\* once the consumer has stopped reading after a cancellation.
StreamEndsWithOneTerminal ==
    /\ [](rtMode = "stream" => OneTerminalLast)
    /\ (rtMode = "stream") ~> (rtPc = "done")

\* C25: when the producer of stream has returned, its channel is closed.
StreamChannelClosedOnExit ==
    (rtMode = "stream" /\ rtPc = "done") => streamClosed

\* The header of a failed request held whole seconds.
HasRetryAfter(call) == call.err.RetryAfter # <<>>

\* C29: the wait before retry k after a network failure, a 5xx or a 429 is the
\* seconds of its Retry-After header, and without the header 2 s * 2^(k-1) plus
\* 20 percent of it (in milliseconds).
RetryWaitIsHeaderOrBackoff ==
    \A k \in 1..Len(rtCalls) :
        (rtCalls[k].retried /\ Retryable(rtCalls[k].err)) =>
            IF HasRetryAfter(rtCalls[k])
            THEN rtCalls[k].after = rtCalls[k].err.RetryAfter[1] * 1000
            ELSE rtCalls[k].after * 10 = 12 * (2000 * Pow2(k - 1))

\* Three retries: the second after a Retry-After of 30 s, the third after 9.6 s.
WitnessHeaderAndThirdBackoff ==
    /\ Len(rtCalls) >= 3
    /\ rtCalls[1].retried /\ ~HasRetryAfter(rtCalls[1]) /\ rtCalls[1].after = 2400
    /\ rtCalls[2].retried /\ HasRetryAfter(rtCalls[2]) /\ rtCalls[2].after = 30000
    /\ rtCalls[3].retried /\ ~HasRetryAfter(rtCalls[3]) /\ rtCalls[3].after = 9600

(***************************************************************************)
(* The instances of the server (server/proto.go).                          *)
(***************************************************************************)
MaxInstanceOps == 4
StatusOK == 200
StatusNotFound == 404

\* The step of handlePostInstances that fails, if one does.
PostFailures == {"none", "decode", "path", "config", "dir", "connect", "app"}

InsResp(op, id, status, ids) == [op |-> op, id |-> id, status |-> status, ids |-> ids]

InitInstance == InitInstanceIdle

\* handlePostInstances: decode, config.Init, createDotCrushDir, db.Connect,
\* app.New, c.instances.Set.  id is a new uuid.  A failure of app.New returns
\* after jsonError, with the connection as db.Connect gave it.
HandlePostInstances ==
    /\ insOps < MaxInstanceOps
    /\ \E id \in InstanceIDs, fails \in PostFailures :
        /\ dbConns[id] = "none"
        /\ insOps' = insOps + 1
        /\ IF fails \in {"decode", "path", "config"}
           THEN /\ insResp' = InsResp("post", id, StatusBadRequest, {})
                /\ UNCHANGED <<instances, dbConns, appRunning>>
           ELSE IF fails \in {"dir", "connect"}
           THEN /\ insResp' = InsResp("post", id, StatusInternalServerError, {})
                /\ UNCHANGED <<instances, dbConns, appRunning>>
           ELSE IF fails = "app"
           THEN /\ dbConns' = [dbConns EXCEPT ![id] = "open"]
                /\ insResp' = InsResp("post", id, StatusInternalServerError, {})
                /\ UNCHANGED <<instances, appRunning>>
           ELSE /\ dbConns' = [dbConns EXCEPT ![id] = "open"]
                /\ appRunning' = appRunning \cup {id}
                /\ instances' = instances \cup {id}
                /\ insResp' = InsResp("post", id, StatusOK, {})
    /\ UNCHANGED <<deletedIDs, insDeletes>>
    /\ UNCHANGED notInstance

\* App.Shutdown, by the words of the instance manager: the agent is shut down
\* and the database of the instance is closed.
AppShutdown(id) ==
    /\ appRunning' = appRunning \ {id}
    /\ dbConns' = [dbConns EXCEPT ![id] = "closed"]

\* handleDeleteInstances, line 523: ins, ok := c.instances.Get(id).  The request
\* goes on to the shutdown when the id is in the registry, to the Del when not.
HandleDeleteInstancesGet(k) ==
    /\ insOps < MaxInstanceOps
    /\ insDeletes[k].pc = "idle"
    /\ \E id \in InstanceIDs :
        insDeletes' = [insDeletes EXCEPT ![k] =
            [pc |-> IF id \in instances THEN "shutdown" ELSE "del",
             id |-> id, ok |-> id \in instances]]
    /\ insOps' = insOps + 1
    /\ UNCHANGED <<instances, dbConns, appRunning, deletedIDs, insResp>>
    /\ UNCHANGED notInstance

\* handleDeleteInstances, lines 524-526: ins.App.Shutdown().  The instance is
\* still in the registry while and after it runs.
HandleDeleteInstancesShutdown(k) ==
    /\ insDeletes[k].pc = "shutdown"
    /\ AppShutdown(insDeletes[k].id)
    /\ insDeletes' = [insDeletes EXCEPT ![k].pc = "del"]
    /\ UNCHANGED <<instances, deletedIDs, insResp, insOps>>
    /\ UNCHANGED notInstance

\* The last step of handleDeleteInstances without c.instances.Del(id).
HandleDeleteInstancesDelKeepingEntry(k) ==
    /\ insDeletes[k].pc = "del"
    /\ UNCHANGED instances
    /\ deletedIDs' = IF insDeletes[k].ok THEN deletedIDs \cup {insDeletes[k].id} ELSE deletedIDs
    /\ insResp' = InsResp("delete", insDeletes[k].id, StatusOK, {})
    /\ insDeletes' = [insDeletes EXCEPT ![k] = NoDelete]
    /\ UNCHANGED <<dbConns, appRunning, insOps>>
    /\ UNCHANGED notInstance

\* handleDeleteInstances, line 527 and the return: c.instances.Del(id); no
\* status is written, so the response is 200.
HandleDeleteInstancesDel(k) ==
    /\ insDeletes[k].pc = "del"
    /\ instances' = instances \ {insDeletes[k].id}
    /\ deletedIDs' = IF insDeletes[k].ok THEN deletedIDs \cup {insDeletes[k].id} ELSE deletedIDs
    /\ insResp' = InsResp("delete", insDeletes[k].id, StatusOK, {})
    /\ insDeletes' = [insDeletes EXCEPT ![k] = NoDelete]
    /\ UNCHANGED <<dbConns, appRunning, insOps>>
    /\ UNCHANGED notInstance

\* handleGetInstance: c.instances.Get(id), 404 when it is not there.
HandleGetInstance ==
    /\ insOps < MaxInstanceOps
    /\ \E id \in InstanceIDs :
        insResp' = InsResp("get", id, IF id \in instances THEN StatusOK ELSE StatusNotFound, {})
    /\ insOps' = insOps + 1
    /\ UNCHANGED <<instances, dbConns, appRunning, deletedIDs, insDeletes>>
    /\ UNCHANGED notInstance

\* handleGetInstances: every instance of c.instances.Seq2().
HandleGetInstances ==
    /\ insOps < MaxInstanceOps
    /\ insResp' = InsResp("list", "", StatusOK, instances)
    /\ insOps' = insOps + 1
    /\ UNCHANGED <<instances, dbConns, appRunning, deletedIDs, insDeletes>>
    /\ UNCHANGED notInstance

NextInstance ==
    \/ HandlePostInstances
    \/ \E k \in DeleteRequests : HandleDeleteInstancesGet(k)
    \/ \E k \in DeleteRequests : HandleDeleteInstancesShutdown(k)
    \/ \E k \in DeleteRequests : HandleDeleteInstancesDel(k)
    \/ HandleGetInstance
    \/ HandleGetInstances

InitSpecInstance == InitNotInstanceIdle /\ InitInstance

SpecInstance == InitSpecInstance /\ [][NextInstance]_vars

\* C26: between requests, every open connection that handlePostInstances opened
\* belongs to an instance of the registry: a POST that failed after db.Connect
\* has closed its connection.
FailedCreateClosesConnection ==
    \A id \in InstanceIDs : dbConns[id] = "open" => id \in instances

PollLimit == 10

SockStates == {"absent", "listening", "stale"}

\* os.Stat(hostURL.Host) gives no error: there is a file at the path.
StatOK == sockState # "absent"

InitBoot ==
    /\ sockState \in SockStates
    /\ sockAtStart = sockState
    /\ bootPc = "start"
    /\ polls = 0
    /\ serverStarted = FALSE
    /\ startCalled = FALSE
    /\ bootCtxDone = FALSE

\* RunE: os.Stat, and startDetachedServer when the error is fs.ErrNotExist; an
\* error of startDetachedServer (os.Executable, MkdirAll, Create, Start,
\* Release) is returned.
ClientStart ==
    /\ bootPc = "start"
    /\ IF StatOK
       THEN bootPc' = "polling" /\ UNCHANGED <<serverStarted, startCalled>>
       ELSE /\ startCalled' = TRUE
            /\ \E ok \in BOOLEAN :
                /\ serverStarted' = ok
                /\ bootPc' = IF ok THEN "polling" ELSE "failed"
    /\ UNCHANGED <<sockState, sockAtStart, polls, bootCtxDone>>
    /\ UNCHANGED notBoot

\* One pass of the wait loop: os.Stat, break when the file is there.
PollStat ==
    /\ bootPc = "polling"
    /\ polls < PollLimit
    /\ polls' = polls + 1
    /\ bootPc' = IF StatOK THEN "connect" ELSE "waiting"
    /\ UNCHANGED <<sockState, sockAtStart, serverStarted, startCalled, bootCtxDone>>
    /\ UNCHANGED notBoot

\* case <-time.After(100 * time.Millisecond)
PollWait ==
    /\ bootPc = "waiting"
    /\ bootPc' = "polling"
    /\ UNCHANGED <<sockState, sockAtStart, polls, serverStarted, startCalled, bootCtxDone>>
    /\ UNCHANGED notBoot

\* case <-cmd.Context().Done(): return cmd.Context().Err()
PollCanceled ==
    /\ bootPc = "waiting"
    /\ bootCtxDone
    /\ bootPc' = "canceled"
    /\ UNCHANGED <<sockState, sockAtStart, polls, serverStarted, startCalled, bootCtxDone>>
    /\ UNCHANGED notBoot

\* After the loop: err of the last os.Stat is not nil, "failed to initialize
\* crush server".
PollGiveUp ==
    /\ bootPc = "polling"
    /\ polls = PollLimit
    /\ bootPc' = "failed"
    /\ UNCHANGED <<sockState, sockAtStart, polls, serverStarted, startCalled, bootCtxDone>>
    /\ UNCHANGED notBoot

\* setupApp: CreateInstance and GetGlobalConfig with cmd.Context(); they succeed
\* when a server listens and the context is not canceled, and their error is
\* returned.
Connect ==
    /\ bootPc = "connect"
    /\ bootPc' = IF sockState = "listening" /\ ~bootCtxDone THEN "health" ELSE "failed"
    /\ UNCHANGED <<sockState, sockAtStart, polls, serverStarted, startCalled, bootCtxDone>>
    /\ UNCHANGED notBoot

\* The health loop: c.Health(cmd.Context()) of the listening server succeeds; with
\* the context canceled it fails and the select returns cmd.Context().Err().
HealthCheck ==
    /\ bootPc = "health"
    /\ bootPc' = IF bootCtxDone THEN "canceled" ELSE "connected"
    /\ UNCHANGED <<sockState, sockAtStart, polls, serverStarted, startCalled, bootCtxDone>>
    /\ UNCHANGED notBoot

\* The detached server binds the socket: net.Listen makes the file, and fails
\* when there is one already.
ServerBinds ==
    /\ serverStarted
    /\ sockState = "absent"
    /\ sockState' = "listening"
    /\ UNCHANGED <<sockAtStart, bootPc, polls, serverStarted, startCalled, bootCtxDone>>
    /\ UNCHANGED notBoot

\* The user interrupts the client.
BootCtxCancel ==
    /\ ~bootCtxDone
    /\ bootPc \notin {"connected", "failed", "canceled"}
    /\ bootCtxDone' = TRUE
    /\ UNCHANGED <<sockState, sockAtStart, bootPc, polls, serverStarted, startCalled>>
    /\ UNCHANGED notBoot

NextBoot ==
    \/ ClientStart
    \/ PollStat
    \/ PollWait
    \/ PollCanceled
    \/ PollGiveUp
    \/ Connect
    \/ HealthCheck
    \/ ServerBinds
    \/ BootCtxCancel

InitSpecBoot == InitNotBootIdle /\ InitBoot

SpecBoot == InitSpecBoot /\ [][NextBoot]_vars

\* C28: a client that started with no server listening at the socket path has
\* called startDetachedServer before it polls or connects; it polls at most
\* PollLimit times and goes on to connect only when the socket is there.
DetachedServerBootstrap ==
    /\ (sockAtStart # "listening" /\ bootPc # "start") => startCalled
    /\ polls <= PollLimit
    /\ bootPc \in {"connect", "health", "connected"} => StatOK

\* The same for a client that found no file at the socket path.
BootstrapWhenSocketAbsent ==
    /\ (sockAtStart = "absent" /\ bootPc # "start") => startCalled
    /\ polls <= PollLimit
    /\ bootPc \in {"connect", "health", "connected"} => StatOK

(***************************************************************************)
(* The context tool with a query (llm/tools/context.go).  A string is a    *)
(* sequence of characters, a text a sequence of lines.                     *)
(***************************************************************************)
MaxFileLines == 2

\* "# From:", which processFile puts before the path of a file.
FromPrefix == <<"#", " ", "F", "r", "o", "m", ":">>

QueryPaths == {<<"p">>, <<"q">>}

\* The lines of the files: an empty one, two with the letters of the queries,
\* and one that begins as the header of a file does.
LinePool == {<<>>, <<"A", "b">>, <<"b">>, FromPrefix \o <<"a">>}
QueryPool == {<<>>, <<"a">>, <<"A", "B">>}

\* strings.ToLower: an upper-case letter becomes its lower-case letter, every
\* other character stays.
UpperLetters ==
    <<"A", "B", "C", "D", "E", "F", "G", "H", "I", "J", "K", "L", "M",
      "N", "O", "P", "Q", "R", "S", "T", "U", "V", "W", "X", "Y", "Z">>
LowerLetters ==
    <<"a", "b", "c", "d", "e", "f", "g", "h", "i", "j", "k", "l", "m",
      "n", "o", "p", "q", "r", "s", "t", "u", "v", "w", "x", "y", "z">>
LowerChar(c) ==
    IF \E i \in 1..Len(UpperLetters) : UpperLetters[i] = c
    THEN LowerLetters[CHOOSE i \in 1..Len(UpperLetters) : UpperLetters[i] = c]
    ELSE c
ToLower(s) == [i \in 1..Len(s) |-> LowerChar(s[i])]

\* strings.Contains
Contains(s, substr) ==
    \E i \in 0..(Len(s) - Len(substr)) : SubSeq(s, i + 1, i + Len(substr)) = substr

\* strings.HasPrefix
HasPrefix(s, prefix) ==
    Len(s) >= Len(prefix) /\ SubSeq(s, 1, Len(prefix)) = prefix

\* strings.Contains(strings.ToLower(line), strings.ToLower(query))
MatchesQuery(line, query) == Contains(ToLower(line), ToLower(query))

\* processFile: "# From:" + filePath + "\n" + content, as lines.
processFile(path, content) == <<FromPrefix \o path>> \o content

\* processContextPaths: the results in the order they arrived, joined by "\n".
RECURSIVE processContextPaths(_, _)
processContextPaths(files, order) ==
    IF order = <<>> THEN <<>>
    ELSE processFile(Head(order), files[Head(order)]) \o processContextPaths(files, Tail(order))

\* The file each line of processContextPaths(files, order) came from.
RECURSIVE LineOwners(_, _)
LineOwners(files, order) ==
    IF order = <<>> THEN <<>>
    ELSE [i \in 1..(Len(files[Head(order)]) + 1) |-> Head(order)] \o LineOwners(files, Tail(order))

\* The loop of Run over the lines from position i: currentFile is the position
\* of the last header (0 for none), kept the positions appended to filteredLines.
RECURSIVE FilterLoop(_, _, _, _, _, _)
FilterLoop(lines, query, i, currentFile, inRelevantFile, kept) ==
    IF i > Len(lines) THEN kept
    ELSE IF HasPrefix(lines[i], FromPrefix)
    THEN FilterLoop(lines, query, i + 1, i, FALSE, kept)
    ELSE IF MatchesQuery(lines[i], query)
    THEN FilterLoop(lines, query, i + 1, currentFile, TRUE,
                    IF ~inRelevantFile /\ currentFile # 0
                    THEN kept \o <<currentFile, i>>
                    ELSE Append(kept, i))
    ELSE IF inRelevantFile
    THEN FilterLoop(lines, query, i + 1, currentFile, inRelevantFile, Append(kept, i))
    ELSE FilterLoop(lines, query, i + 1, currentFile, inRelevantFile, kept)

\* The positions the query filter of Run keeps.
FilterQuery(lines, query) == FilterLoop(lines, query, 1, 0, FALSE, <<>>)

NoMatchLine == <<"N", "o", " ", "c", "o", "n", "t", "e", "n", "t">>

InitQuery ==
    /\ cqFiles \in [QueryPaths -> {c \in SeqsUpTo(LinePool, MaxFileLines) : c # <<>>}]
    /\ cqQuery \in QueryPool
    /\ cqPc = "idle"
    /\ cqLines = <<>>
    /\ cqOwner = <<>>
    /\ cqKept = <<>>
    /\ cqContent = <<>>

\* ContextTool.Run with the paths of both files: the files arrive in some order;
\* with a query the lines are filtered, and "No content found matching query"
\* is the content when no line is kept.
ContextQueryRun ==
    /\ cqPc = "idle"
    /\ \E order \in {<<<<"p">>, <<"q">>>>, <<<<"q">>, <<"p">>>>} :
        LET lines == processContextPaths(cqFiles, order)
            kept == IF cqQuery = <<>> THEN [i \in 1..Len(lines) |-> i]
                    ELSE FilterQuery(lines, cqQuery)
        IN /\ cqLines' = lines
           /\ cqOwner' = LineOwners(cqFiles, order)
           /\ cqKept' = kept
           /\ cqContent' = IF kept = <<>> THEN <<NoMatchLine \o cqQuery>>
                           ELSE [k \in 1..Len(kept) |-> lines[kept[k]]]
    /\ cqPc' = "done"
    /\ UNCHANGED <<cqFiles, cqQuery>>
    /\ UNCHANGED notQuery

NextQuery == ContextQueryRun

InitSpecQuery == InitNotQueryIdle /\ InitQuery

SpecQuery == InitSpecQuery /\ [][NextQuery]_vars

\* Position i of cqLines is a line of a file, not the header before it.
IsContentLine(i) == i > 1 /\ cqOwner[i - 1] = cqOwner[i]
IsFileHeader(i) == ~IsContentLine(i)

KeptPositions == {cqKept[k] : k \in 1..Len(cqKept)}

\* The file of position i has a line that matches the query.
FileMatches(path) ==
    \E i \in 1..Len(cqLines) :
        cqOwner[i] = path /\ IsContentLine(i) /\ MatchesQuery(cqLines[i], cqQuery)

\* C30: after a call with a query, every line of a loaded file that matches the
\* query without regard to case is in the output, and no line or header of a
\* file with no matching line is, whatever the order of the files.
QueryKeepsMatchesDropsOtherFiles ==
    (cqPc = "done" /\ cqQuery # <<>>) =>
        \A i \in 1..Len(cqLines) :
            /\ (IsContentLine(i) /\ MatchesQuery(cqLines[i], cqQuery)) => i \in KeptPositions
            /\ ~FileMatches(cqOwner[i]) => i \notin KeptPositions

\* The same for files none of whose lines begins with "# From:".
QueryFilterWithoutHeaderLikeLines ==
    (cqPc = "done" /\ cqQuery # <<>>
        /\ \A i \in 1..Len(cqLines) : IsContentLine(i) => ~HasPrefix(cqLines[i], FromPrefix)) =>
        \A i \in 1..Len(cqLines) :
            /\ (IsContentLine(i) /\ MatchesQuery(cqLines[i], cqQuery)) => i \in KeptPositions
            /\ ~FileMatches(cqOwner[i]) => i \notin KeptPositions

\* C31: with disable_streaming not set, StreamResponse of the base provider has
\* called the client's stream operation and never send, and the events read from
\* the channel it returned, followed by those still in it, are the events the
\* stream operation produced, in their order.
StreamResponsePassesThrough ==
    (~disableStreaming /\ provKind \in {"openai", "fake"} /\ agentPc # "idle") =>
        /\ streamCalled
        /\ sendCalls = 0
        /\ consumed \o eventChan = sent

\* The pass-through of the test: one content_delta produced, read, and the
\* channel closed.
WitnessPassThroughDelta ==
    /\ ~disableStreaming
    /\ provKind = "fake"
    /\ streamCalled
    /\ sent = <<ProviderEvent(EventContentDelta, "none")>>
    /\ consumed = sent
    /\ chanClosed

\* C33: the reader never sends on the closed channel and never closes it twice:
\* sendEvent does not panic, whatever frames arrive after the cancellation.
NoSendOrCloseAfterClose ==
    readerPc # "panicked"

\* C34: once ReadBytes has returned a read error, the reader has ended: it is not
\* back in its loop, reading the body again.
ReaderEndsOnReadError ==
    readErrors > 0 => readerPc \in {"ended", "panicked"}

\* C39: when the reader has read EOF and ended, the channel SubscribeEvents
\* returned is closed.
EOFClosesEventChannel ==
    readerPc = "ended" => evcClosed

\* C37: a permission_request event, of whatever tool raised it, is decoded by the
\* client's reader without a panic and sent on as the typed event it was.
PermissionRequestDecodedTyped ==
    (evPc = "decoded" /\ evIn.Tag = PayloadTypePermissionRequest) =>
        /\ evOut.outcome = "sent"
        /\ evOut.events = <<evIn>>

\* The same for the tools PermissionRequest.UnmarshalJSON names.
ListedToolRequestDecodedTyped ==
    (evPc = "decoded" /\ evIn.Tag = PayloadTypePermissionRequest
        /\ evIn.Payload.ToolName \in PermissionParamsTools) =>
        /\ evOut.outcome = "sent"
        /\ evOut.events = <<evIn>>

(***************************************************************************)
(* The client's reader over several frames (client SubscribeEvents).       *)
(***************************************************************************)
MaxFrames == 3

\* The events of the known frames, and the data of a frame with a tag the
\* client does not know.
KnownFrameEvents ==
    {TypedEvent(CreatedEvent, PayloadTypeSession, Session("s1", "title", 2)),
     TypedEvent(UpdatedEvent, PayloadTypeFile, File("f1", "a.go", 1))}
UnknownTagFrame ==
    [type |-> CreatedEvent, payload |-> [type |-> "todo", payload |-> EmptyObject]]
FramePool == {EventMarshalJSON(ev) : ev \in KnownFrameEvents} \cup {UnknownTagFrame}

HasUnknownPayloadTag(data) == data.payload.type \notin PayloadTypes

InitFrames ==
    /\ frIn \in SeqsUpTo(FramePool, MaxFrames)
    /\ frPos = 1
    /\ frReader = "reading"
    /\ frWarned = 0
    /\ frSent = <<>>

\* One pass of the loop of SubscribeEvents over a data line: a panic of the
\* decoding ends the goroutine and the process; a skipped line and a sent event
\* lead to the next line.  The default case of the reader's switch warns.
ReaderNextFrame ==
    /\ frReader = "reading"
    /\ frPos <= Len(frIn)
    /\ LET r == ReadFrame(frIn[frPos]) IN
        /\ frReader' = IF r.outcome = "panic" THEN "panicked" ELSE "reading"
        /\ frSent' = frSent \o r.events
        /\ frWarned' = IF r.outcome = "skipped" /\ HasUnknownPayloadTag(frIn[frPos])
                       THEN frWarned + 1 ELSE frWarned
    /\ frPos' = frPos + 1
    /\ UNCHANGED frIn
    /\ UNCHANGED notFrames

NextFrames == ReaderNextFrame

InitSpecFrames == InitNotFramesIdle /\ InitFrames

SpecFrames == InitSpecFrames /\ [][NextFrames]_vars

\* The frames before position n that carry a known tag.
KnownFramesBefore(n) ==
    SelectSeq(SubSeq(frIn, 1, n - 1), LAMBDA d : ~HasUnknownPayloadTag(d))

\* C38: the reader never panics; each frame with an unknown tag that it has
\* passed was skipped with a warning, and the events it has sent are those of
\* the other frames it has passed, those after an unknown tag included.
UnknownTagFrameSkipped ==
    /\ frReader # "panicked"
    /\ frWarned = Len(SubSeq(frIn, 1, frPos - 1)) - Len(KnownFramesBefore(frPos))
    /\ Len(frSent) = Len(KnownFramesBefore(frPos))
    /\ \A i \in 1..Len(frSent) : EventMarshalJSON(frSent[i]) = KnownFramesBefore(frPos)[i]

\* The same for streams whose frames all carry a known tag.
KnownFramesAllSent ==
    (\A i \in 1..Len(frIn) : ~HasUnknownPayloadTag(frIn[i])) =>
        /\ frReader # "panicked"
        /\ Len(frSent) = Len(KnownFramesBefore(frPos))
        /\ \A i \in 1..Len(frSent) : EventMarshalJSON(frSent[i]) = KnownFramesBefore(frPos)[i]

(***************************************************************************)
(* The goroutines of processContextPaths (llm/tools/context.go).           *)
(***************************************************************************)
MaxPaths == 2

\* A directory with two files, in the lexical order filepath.WalkDir visits
\* them ("Q" before "p"), and the paths a call can give.
WalkDir == <<"d">>
WalkFiles == <<WalkDir \o <<"Q">>, WalkDir \o <<"p">>>>
WalkPathPool == {WalkDir, WalkFiles[1], WalkFiles[2]}

\* The files a goroutine visits for its path: filepath.WalkDir over a
\* directory, the file itself otherwise.
FilesUnder(path) == IF path = WalkDir THEN WalkFiles ELSE <<path>>

InitWalk ==
    /\ wkPaths \in SeqsUpTo(WalkPathPool, MaxPaths)
    /\ wkTodo = [g \in 1..Len(wkPaths) |-> FilesUnder(wkPaths[g])]
    /\ wkPc = [g \in 1..Len(wkPaths) |-> "get"]
    /\ processedFiles = {}
    /\ wkResults = <<>>

\* processedFiles.Get(lowerPath): a processed file is passed by.
WalkGet(g) ==
    /\ wkTodo[g] # <<>>
    /\ wkPc[g] = "get"
    /\ IF ToLower(Head(wkTodo[g])) \in processedFiles
       THEN /\ wkTodo' = [wkTodo EXCEPT ![g] = Tail(@)]
            /\ UNCHANGED wkPc
       ELSE /\ wkPc' = [wkPc EXCEPT ![g] = "set"]
            /\ UNCHANGED wkTodo
    /\ UNCHANGED <<wkPaths, processedFiles, wkResults>>
    /\ UNCHANGED notWalk

\* processedFiles.Set(lowerPath, true) and processFile.
WalkSet(g) ==
    /\ wkTodo[g] # <<>>
    /\ wkPc[g] = "set"
    /\ processedFiles' = processedFiles \cup {ToLower(Head(wkTodo[g]))}
    /\ wkPc' = [wkPc EXCEPT ![g] = "send"]
    /\ UNCHANGED <<wkPaths, wkTodo, wkResults>>
    /\ UNCHANGED notWalk

\* resultCh <- result on the unbuffered channel, and the append of the receiver.
WalkSend(g) ==
    /\ wkTodo[g] # <<>>
    /\ wkPc[g] = "send"
    /\ wkResults' = Append(wkResults, Head(wkTodo[g]))
    /\ wkTodo' = [wkTodo EXCEPT ![g] = Tail(@)]
    /\ wkPc' = [wkPc EXCEPT ![g] = "get"]
    /\ UNCHANGED <<wkPaths, processedFiles>>
    /\ UNCHANGED notWalk

NextWalk ==
    \/ \E g \in 1..Len(wkPaths) : WalkGet(g)
    \/ \E g \in 1..Len(wkPaths) : WalkSet(g)
    \/ \E g \in 1..Len(wkPaths) : WalkSend(g)

InitSpecWalk == InitNotWalkIdle /\ InitWalk

SpecWalk == InitSpecWalk /\ [][NextWalk]_vars

\* C32: no file is in the result of processContextPaths twice.
EachFileAtMostOnce ==
    \A i, k \in 1..Len(wkResults) : wkResults[i] = wkResults[k] => i = k

(***************************************************************************)
(* The event streams of an instance that is deleted (server/proto.go).     *)
(***************************************************************************)
MaxStreamEvents == 2
MaxStreamFrames == 3

\* json.Marshal of the zero value a closed channel gives: null.
NullFrame == 0

InitEvs ==
    /\ esChan = <<>>
    /\ esPublished = 0
    /\ esClosed = FALSE
    /\ esRegistered = TRUE
    /\ esDelPc = "idle"
    /\ esHandler = [c \in Clients |-> "none"]
    /\ esFrames = [c \in Clients |-> <<>>]

\* handleGetInstanceEvents: c.instances.Get(id) finds the instance, the loop
\* starts.  The instance is found until c.instances.Del(id), shut down or not.
EvsConnect(c) ==
    /\ esRegistered
    /\ esHandler[c] = "none"
    /\ esHandler' = [esHandler EXCEPT ![c] = "running"]
    /\ UNCHANGED <<esChan, esPublished, esClosed, esRegistered, esDelPc, esFrames>>
    /\ UNCHANGED notEvs

\* The instance publishes an event; the events are numbered 1, 2, ...
EvsPublish ==
    /\ ~esClosed
    /\ esPublished < MaxStreamEvents
    /\ esPublished' = esPublished + 1
    /\ esChan' = Append(esChan, esPublished + 1)
    /\ UNCHANGED <<esClosed, esRegistered, esDelPc, esHandler, esFrames>>
    /\ UNCHANGED notEvs

\* case ev := <-ins.App.Events(): json.Marshal(ev), Fprintf, Flush.  The
\* receive has no ok: from the closed and empty channel it gives the zero value.
EvsWrite(c) ==
    /\ esHandler[c] = "running"
    /\ Len(esFrames[c]) < MaxStreamFrames
    /\ IF esChan # <<>>
       THEN /\ esFrames' = [esFrames EXCEPT ![c] = Append(@, Head(esChan))]
            /\ esChan' = Tail(esChan)
       ELSE /\ esClosed
            /\ esFrames' = [esFrames EXCEPT ![c] = Append(@, NullFrame)]
            /\ UNCHANGED esChan
    /\ UNCHANGED <<esPublished, esClosed, esRegistered, esDelPc, esHandler>>
    /\ UNCHANGED notEvs

\* case <-r.Context().Done(): the client went away.
EvsRequestDone(c) ==
    /\ esHandler[c] = "running"
    /\ esHandler' = [esHandler EXCEPT ![c] = "returned"]
    /\ UNCHANGED <<esChan, esPublished, esClosed, esRegistered, esDelPc, esFrames>>
    /\ UNCHANGED notEvs

\* handleDeleteInstances, line 523: ins, ok := c.instances.Get(id).
EvsDeleteGet ==
    /\ esDelPc = "idle"
    /\ esDelPc' = IF esRegistered THEN "shutdown" ELSE "del"
    /\ UNCHANGED <<esChan, esPublished, esClosed, esRegistered, esHandler, esFrames>>
    /\ UNCHANGED notEvs

\* handleDeleteInstances, lines 524-526: ins.App.Shutdown(), which closes the
\* channels of the broker.
EvsDeleteShutdown ==
    /\ esDelPc = "shutdown"
    /\ esClosed' = TRUE
    /\ esDelPc' = "del"
    /\ UNCHANGED <<esChan, esPublished, esRegistered, esHandler, esFrames>>
    /\ UNCHANGED notEvs

\* handleDeleteInstances, line 527: c.instances.Del(id).
EvsDeleteDel ==
    /\ esDelPc = "del"
    /\ esRegistered' = FALSE
    /\ esDelPc' = "idle"
    /\ UNCHANGED <<esChan, esPublished, esClosed, esHandler, esFrames>>
    /\ UNCHANGED notEvs

NextEvs ==
    \/ \E c \in Clients : EvsConnect(c)
    \/ EvsPublish
    \/ \E c \in Clients : EvsWrite(c)
    \/ \E c \in Clients : EvsRequestDone(c)
    \/ EvsDeleteGet
    \/ EvsDeleteShutdown
    \/ EvsDeleteDel

InitSpecEvs == InitNotEvsIdle /\ InitEvs

SpecEvs == InitSpecEvs /\ [][NextEvs]_vars

\* C35: the handlers of a deleted instance write no frame but those of the
\* events the instance published: once its channel is closed and empty they
\* write nothing more.
DeletedInstanceStreamsEnd ==
    \A c \in Clients : \A i \in 1..Len(esFrames[c]) : esFrames[c][i] # NullFrame

(***************************************************************************)
(* The LSP states of the app (app/lsp_events.go).                          *)
(***************************************************************************)
MaxDiagnostics == 2

ServerStates == {"starting", "ready", "error"}

LSPClientInfo(state, count) == [exists |-> TRUE, State |-> state, DiagnosticCount |-> count]

LSPInfos == {LSPClientInfo(s, n) : s \in ServerStates, n \in 0..MaxDiagnostics}

InitLsp ==
    /\ lspStates \in {NoLSPInfo} \cup {LSPClientInfo(s, 0) : s \in ServerStates}
    /\ lsStatePc = "idle"
    /\ lsStateArgs \in LSPInfos
    /\ lsDiagPc = "idle"
    /\ lsDiagCount \in 1..MaxDiagnostics
    /\ lsDiagInfo = NoLSPInfo

\* updateLSPState: a.lspStates.Set(name, info).
UpdateLSPState ==
    /\ lsStatePc = "idle"
    /\ lspStates' = lsStateArgs
    /\ lsStatePc' = "done"
    /\ UNCHANGED <<lsStateArgs, lsDiagPc, lsDiagCount, lsDiagInfo>>
    /\ UNCHANGED notLsp

\* updateLSPDiagnostics: info, exists := a.lspStates.Get(name).
UpdateLSPDiagnosticsGet ==
    /\ lsDiagPc = "idle"
    /\ lsDiagInfo' = lspStates
    /\ lsDiagPc' = IF lspStates.exists THEN "got" ELSE "done"
    /\ UNCHANGED <<lspStates, lsStatePc, lsStateArgs, lsDiagCount>>
    /\ UNCHANGED notLsp

\* updateLSPDiagnostics: info.DiagnosticCount = diagnosticCount and
\* a.lspStates.Set(name, info), with the info it got.
UpdateLSPDiagnosticsSet ==
    /\ lsDiagPc = "got"
    /\ lspStates' = [lsDiagInfo EXCEPT !.DiagnosticCount = lsDiagCount]
    /\ lsDiagPc' = "done"
    /\ UNCHANGED <<lsStatePc, lsStateArgs, lsDiagCount, lsDiagInfo>>
    /\ UNCHANGED notLsp

NextLsp ==
    \/ UpdateLSPState
    \/ UpdateLSPDiagnosticsGet
    \/ UpdateLSPDiagnosticsSet

InitSpecLsp == InitNotLspIdle /\ InitLsp

SpecLsp == InitSpecLsp /\ [][NextLsp]_vars

\* C36: when updateLSPState and updateLSPDiagnostics have both returned, the
\* stored info carries the state updateLSPState set.
StateSurvivesDiagnosticsUpdate ==
    (lsStatePc = "done" /\ lsDiagPc = "done") => lspStates.State = lsStateArgs.State

(***************************************************************************)
(* The todo tools called from several sessions (tools/todo.go,             *)
(* todo/todo.go, db/sql/todos.sql).                                        *)
(***************************************************************************)
MaxTodoCalls == 3

CallerSessions == {"", SessionID, OtherSessionID}

TodoRow(id, session, content, status) ==
    [ID |-> id, SessionID |-> session, Content |-> content, Status |-> status]

\* what the loop of a todo tool carries: the table and the loop's counts
RowLoopState(rows, next) == [rows |-> rows, next |-> next, results |-> 0, errors |-> 0]

\* todoService.Create: INSERT INTO todos (id, session_id, content, status, ...)
CreateTodo(st, session, item) ==
    [st EXCEPT !.rows = @ \cup {TodoRow(st.next, session, item.Content, item.Status)},
               !.next = @ + 1,
               !.results = @ + 1]

\* todoService.Update: UPDATE todos SET content = ?, status = ? WHERE id = ?
\* RETURNING *; without a row of that id the query returns an error
UpdateTodo(st, item) ==
    IF \E r \in st.rows : r.ID = item.ID
    THEN [st EXCEPT !.rows = {IF r.ID = item.ID
                              THEN [r EXCEPT !.Content = item.Content, !.Status = item.Status]
                              ELSE r : r \in @},
                    !.results = @ + 1]
    ELSE LoopError(st)

\* todoService.Delete: DELETE FROM todos WHERE id = ?
DeleteTodo(st, id) ==
    [st EXCEPT !.rows = {r \in @ : r.ID # id},
               !.results = @ + 1]

RECURSIVE todoWriteRows(_, _, _)
todoWriteRows(items, sessionID, st) ==
    IF items = <<>> THEN st
    ELSE LET item == Head(items) IN
         todoWriteRows(Tail(items), sessionID,
            IF item.Content = "" THEN LoopError(st)
            ELSE IF item.Status \notin ValidStatuses THEN LoopError(st)
            ELSE IF item.ID = NoID THEN CreateTodo(st, sessionID, item)
            ELSE UpdateTodo(st, item))

RECURSIVE todoDeleteRows(_, _)
todoDeleteRows(ids, st) ==
    IF ids = <<>> THEN st
    ELSE todoDeleteRows(Tail(ids),
            IF Head(ids) = NoID THEN LoopError(st) ELSE DeleteTodo(st, Head(ids)))

InitTodoRows ==
    /\ tdRows = {}
    /\ tdNextId = 1
    /\ tdCalls = 0
    /\ tdCaller = ""
    /\ tdBefore = {}
    /\ tdResponse = ""
    /\ tdOp = ""

\* todoWriteTool.Run with sessionID in its context
TodoWriteCall(sessionID, items) ==
    /\ tdCalls < MaxTodoCalls
    /\ tdCalls' = tdCalls + 1
    /\ tdOp' = TodoWriteToolName
    /\ tdCaller' = sessionID
    /\ tdBefore' = tdRows
    /\ IF items = <<>> \/ sessionID = ""
       THEN /\ tdResponse' = "error"
            /\ UNCHANGED <<tdRows, tdNextId>>
       ELSE LET st == todoWriteRows(items, sessionID, RowLoopState(tdRows, tdNextId)) IN
            /\ tdRows' = st.rows
            /\ tdNextId' = st.next
            /\ tdResponse' = LoopResponse(st)
    /\ UNCHANGED notRows

\* todoDeleteTool.Run with sessionID in its context, which it does not read
TodoDeleteCall(sessionID, ids) ==
    /\ tdCalls < MaxTodoCalls
    /\ tdCalls' = tdCalls + 1
    /\ tdOp' = TodoDeleteToolName
    /\ tdCaller' = sessionID
    /\ tdBefore' = tdRows
    /\ IF ids = <<>>
       THEN /\ tdResponse' = "error"
            /\ UNCHANGED <<tdRows, tdNextId>>
       ELSE LET st == todoDeleteRows(ids, RowLoopState(tdRows, tdNextId)) IN
            /\ tdRows' = st.rows
            /\ tdNextId' = st.next
            /\ tdResponse' = LoopResponse(st)
    /\ UNCHANGED notRows

\* todoService.UpdateStatus: UPDATE todos SET status = ? WHERE id = ? RETURNING *;
\* without a row of that id the query returns an error.
TodoUpdateStatus(id, status) ==
    /\ tdCalls < MaxTodoCalls
    /\ tdCalls' = tdCalls + 1
    /\ tdOp' = "UpdateStatus"
    /\ tdCaller' = ""
    /\ tdBefore' = tdRows
    /\ tdRows' = {IF r.ID = id THEN [r EXCEPT !.Status = status] ELSE r : r \in tdRows}
    /\ tdResponse' = IF \E r \in tdRows : r.ID = id THEN "ok" ELSE "error"
    /\ UNCHANGED tdNextId
    /\ UNCHANGED notRows

\* todoService.DeleteBySession: DELETE FROM todos WHERE session_id = ?
TodoDeleteBySession(sessionID) ==
    /\ tdCalls < MaxTodoCalls
    /\ tdCalls' = tdCalls + 1
    /\ tdOp' = "DeleteBySession"
    /\ tdCaller' = sessionID
    /\ tdBefore' = tdRows
    /\ tdRows' = {r \in tdRows : r.SessionID # sessionID}
    /\ tdResponse' = "ok"
    /\ UNCHANGED tdNextId
    /\ UNCHANGED notRows

NextRows ==
    \/ \E sessionID \in CallerSessions, items \in SeqsUpTo(TodoItemPool, MaxItems) :
            TodoWriteCall(sessionID, items)
    \/ \E sessionID \in CallerSessions, ids \in SeqsUpTo(TodoIDPool, MaxItems) :
            TodoDeleteCall(sessionID, ids)
    \/ \E id \in TodoIDPool, status \in ValidStatuses : TodoUpdateStatus(id, status)
    \/ \E sessionID \in CallerSessions : TodoDeleteBySession(sessionID)

InitSpecRows == InitNotRowsIdle /\ InitTodoRows

SpecRows == InitSpecRows /\ [][NextRows]_vars

\* C40: a call of todo_write or todo_delete leaves every todo of another
\* session as it was: each row that was in the table when the call began and
\* whose session_id is not the caller's session id is in the table, unchanged,
\* when the call has returned.
TodoCallLeavesOtherSessionsRows ==
    tdOp \in {TodoWriteToolName, TodoDeleteToolName} =>
        \A r \in tdBefore : r.SessionID # tdCaller => r \in tdRows

\* what does hold: a call changes no row's owner and creates rows for the
\* caller only
TodoCallKeepsOwners ==
    tdOp \in {TodoWriteToolName, TodoDeleteToolName} =>
        /\ \A r \in tdRows : \A b \in tdBefore : r.ID = b.ID => r.SessionID = b.SessionID
        /\ \A r \in tdRows : (\A b \in tdBefore : b.ID # r.ID) => r.SessionID = tdCaller

====
